---- MODULE Spec2Model ----
(***************************************************************************)
(* A model of the PDF text-extraction pipelines of parse_pdf_from_url:     *)
(* URL normalisation (fix_url), the download retry loops of the Mongo      *)
(* pipelines, the native/OCR decision of parsingText2.extract_text_from_pdf*)
(* with its language filter, and the two thread-pool OCR extractors.       *)
(*                                                                         *)
(* A text (str) is a sequence of characters; a character is a one-element  *)
(* token: a Latin letter or punctuation mark stands for itself, "NL" is    *)
(* the newline, "TAB" the tab, "KA" and "HA" are Devanagari letters, "EA"  *)
(* is a non-English Latin letter (e acute), "#" a symbol outside the       *)
(* filter's allow-list.                                                    *)
(***************************************************************************)
EXTENDS Integers, Sequences, FiniteSets, TLC

VARIABLES
    \* ---- fix_url applied to one URL, then to its own result
    pcUrl, url0, url1, url2,
    \* ---- one call of parsingText2.extract_text_from_pdf
    pcEx, fileIsFile, nativeText, ocrText, exLog, exResult,
    \* ---- one call of an OCR extractor (extract_pdf_with_ocr or pdf_to_text)
    extractor, pcOcr, totalPages, chunkSize, maxWorkers, chunkStart,
    chunkPages, queue, running, ocrOut, completed, doneAtCall, yielded,
    allText, ocrReturn, outFile, rasterLog,
    \* ---- one acquisition (download, validation, extraction) of a pipeline
    path, srcUrl, pcPipe, attempt, fileSize, requests, attemptLog, events,
    content,
    \* ---- the pages whose OCR call raised inside ocr_image / process_image
    ocrFailed,
    \* ---- the page images process_image wrote to pdf_images and left there
    imageFiles,
    \* ---- one call of parsingText2.extract_pdf_with_pymupdf
    pcNat, pdfPages, pageIndex, allTextChunks, natReturn,
    \* ---- clean_and_keep_only_english applied to a text, then to its result
    pcFilter, filterIn, filtered1, filtered2,
    \* ---- one run of a Mongo pipeline's main over the documents of its query
    pipeline, batch, stored, docIdx, pcDoc, doc, acqLog, handled, finalCleanup,
    dbFailed,
    \* ---- one run of train_devSplit.py
    pcSplit, jsonl, data, train_data, dev_data, files,
    \* ---- two processes at work in one directory
    procProg, procPc, fsFiles, inUse, clashes,
    \* ---- one call of genPairs.extract_aligned_pairs
    pcPairs, triples, threshold, matches, pairs,
    \* ---- the scratch files of one run of a Mongo pipeline, and where the
    \* ---- stored content came from
    runPipeline, pcRun, docNo, langsLeft, tryNo, disk, got, newFields,
    inputsUsed, writes

urlVars  == <<pcUrl, url0, url1, url2>>
exVars   == <<pcEx, fileIsFile, nativeText, ocrText, exLog, exResult>>
ocrVars  == <<extractor, pcOcr, totalPages, chunkSize, maxWorkers, chunkStart,
              chunkPages, queue, running, ocrOut, completed, doneAtCall,
              yielded, allText, ocrReturn, outFile, rasterLog>>
pipeVars == <<path, srcUrl, pcPipe, attempt, fileSize, requests, attemptLog,
              events, content>>
natVars  == <<pcNat, pdfPages, pageIndex, allTextChunks, natReturn>>
filterVars == <<pcFilter, filterIn, filtered1, filtered2>>
docVars  == <<pipeline, batch, stored, docIdx, pcDoc, doc, acqLog, handled,
              finalCleanup, dbFailed>>
splitVars == <<pcSplit, jsonl, data, train_data, dev_data, files>>
\* the state of the stand-alone scripts and helpers
procVars == <<procProg, procPc, fsFiles, inUse, clashes>>
pairVars == <<pcPairs, triples, threshold, matches, pairs>>
tempVars == <<runPipeline, pcRun, docNo, langsLeft, tryNo, disk, got, newFields,
              inputsUsed, writes>>
moreVars == <<splitVars, procVars, pairVars, tempVars>>
\* the parts of the state only the later specifications use
laterVars == <<natVars, filterVars, docVars, moreVars>>
vars     == <<urlVars, exVars, ocrVars, pipeVars, ocrFailed, imageFiles, laterVars>>

\* what the steps of one specification leave alone
exFrame   == <<urlVars, ocrVars, pipeVars, ocrFailed, imageFiles, laterVars>>
ocrFrame  == <<urlVars, exVars, pipeVars, ocrFailed, imageFiles, laterVars>>
pipeFrame == <<urlVars, ocrVars, ocrFailed, imageFiles, laterVars>>

----------------------------------------------------------------------------
(* Bounds of the model.                                                    *)

\* a URL is the concatenation of at most MaxUrlPieces pieces of UrlPieces
MaxUrlPieces == 3
\* a native text is the concatenation of at most MaxTextPieces of TextPieces
MaxTextPieces == 2
\* a PDF handed to an OCR extractor has at most MaxPages pages
MaxPages == 3
\* extract_pdf_with_ocr is called with max_pages_per_chunk in 1..MaxChunkSize
MaxChunkSize == 2

----------------------------------------------------------------------------
(* Python str helpers.                                                     *)

\* s * n for a one-character s
Rep(c, n) == [i \in 1..n |-> c]

\* sep.join(ss)
RECURSIVE Join(_, _)
Join(ss, sep) ==
    IF ss = <<>> THEN <<>>
    ELSE IF Len(ss) = 1 THEN ss[1]
    ELSE ss[1] \o sep \o Join(Tail(ss), sep)

\* s.find(sub) from index i on, 1-based; 0 when sub does not occur
FindFrom(s, sub, i) ==
    LET hits == {j \in i..(Len(s) - Len(sub) + 1) :
                    \A k \in 1..Len(sub) : s[j + k - 1] = sub[k]}
    IN  IF hits = {} THEN 0 ELSE CHOOSE j \in hits : \A h \in hits : j <= h

\* sub in s
Contains(s, sub) == FindFrom(s, sub, 1) # 0

\* s.split(sep): the pieces between the non-overlapping occurrences of sep,
\* found left to right
RECURSIVE Split(_, _)
Split(s, sep) ==
    LET i == FindFrom(s, sep, 1)
    IN  IF i = 0 THEN <<s>>
        ELSE <<SubSeq(s, 1, i - 1)>> \o Split(SubSeq(s, i + Len(sep), Len(s)), sep)

\* all concatenations of exactly n pieces
RECURSIVE PiecesOf(_, _)
PiecesOf(pieces, n) ==
    IF n = 0 THEN {<<>>}
    ELSE {p \o rest : p \in pieces, rest \in PiecesOf(pieces, n - 1)}

\* all concatenations of at most n pieces
UpToPieces(pieces, n) == UNION {PiecesOf(pieces, k) : k \in 0..n}

----------------------------------------------------------------------------
(* fix_url (en_extract.py, en_hin_extract.py, extract.py: the same text).  *)

DoWeb == <<"d", "o", "W", "e", "b">>
DoQWeb == <<"d", "o", "?", "W", "e", "b">>

\* a plausible slip: the '?' appended after the pattern instead of inside it
fix_url_appended(url) ==
    IF Contains(url, DoWeb)
    THEN LET parts == Split(url, DoWeb)
         IN  IF Len(parts) > 1 THEN parts[1] \o DoWeb \o <<"?">> \o parts[2] ELSE url
    ELSE url

fix_url(url) ==
    IF Contains(url, DoWeb)
    THEN LET parts == Split(url, DoWeb)
         IN  IF Len(parts) > 1 THEN parts[1] \o DoQWeb \o parts[2] ELSE url
    ELSE url

\* the pieces URLs are built from: the pattern, its fragments, other text
UrlPieces ==
    { DoWeb, <<"d", "o">>, <<"W", "e", "b">>, <<"o", "W", "e", "b">>,
      <<"d">>, <<"b">>, <<"?">>, <<"x">> }

Urls == UpToPieces(UrlPieces, MaxUrlPieces)

----------------------------------------------------------------------------
(* Characters (parsingText2.py: str.upper, str.strip, the regexes).        *)

LowerLetters == <<"a", "d", "e", "f", "g", "i", "n", "o", "r", "t", "x", "y", "z">>
UpperLetters == <<"A", "D", "E", "F", "G", "I", "N", "O", "R", "T", "X", "Y", "Z">>

Range(f) == {f[i] : i \in DOMAIN f}

IsLatin(c) == c \in Range(LowerLetters) \cup Range(UpperLetters)
DigitChars == <<"0", "1", "2", "3", "4", "5", "6", "7", "8", "9">>
IsDigit(c) == c \in Range(DigitChars)
\* \s, and what str.strip() removes
IsSpace(c) == c \in {" ", "NL", "TAB"}
IsDevanagari(c) == c \in {"KA", "HA"}
\* a letter of a Latin-script language other than English
IsForeign(c) == c \in {"EA"}

\* c.upper()
UpperChar(c) ==
    IF c \in Range(LowerLetters)
    THEN UpperLetters[CHOOSE i \in DOMAIN LowerLetters : LowerLetters[i] = c]
    ELSE c

\* s.upper()
UpperStr(s) == [i \in DOMAIN s |-> UpperChar(s[i])]

\* the first index >= i of s that is in the set stops; Len(s) + 1 when there
\* is none
SkipWhile(s, i, stops) ==
    LET later == {j \in stops : j >= i}
    IN  IF later = {} THEN (IF i > Len(s) THEN i ELSE Len(s) + 1)
        ELSE CHOOSE j \in later : \A h \in later : j <= h

\* s.strip(): from the first to the last character that is not whitespace
Strip(s) ==
    LET inked == {j \in 1..Len(s) : ~IsSpace(s[j])}
    IN  IF inked = {} THEN <<>>
        ELSE SubSeq(s, CHOOSE j \in inked : \A h \in inked : j <= h,
                       CHOOSE j \in inked : \A h \in inked : j >= h)

\* the number of characters of s that are in the set of indices hits
Count(s, hits) == Cardinality(hits \cap DOMAIN s)

----------------------------------------------------------------------------
(* remove_unwanted_headers (parsingText2.py:132-149).                      *)

GazetteOfIndia ==
    <<"G", "A", "Z", "E", "T", "T", "E", " ", "O", "F", " ", "I", "N", "D", "I", "A">>
Extraordinary ==
    <<"E", "X", "T", "R", "A", "O", "R", "D", "I", "N", "A", "R", "Y">>

\* the first index >= i of s that is not a whitespace character
SkipSpaces(s, i) == SkipWhile(s, i, {j \in DOMAIN s : ~IsSpace(s[j])})

\* the first index >= i of s that is not a digit
SkipDigits(s, i) == SkipWhile(s, i, {j \in DOMAIN s : ~IsDigit(s[j])})

\* re.match(r'^\s*\d+\]\s*$', s)
MatchesPageNumber(s) ==
    LET d0 == SkipSpaces(s, 1)
        d1 == SkipDigits(s, d0)
    IN  /\ d1 > d0
        /\ d1 <= Len(s)
        /\ s[d1] = "]"
        /\ SkipSpaces(s, d1 + 1) = Len(s) + 1

\* whether remove_unwanted_headers drops the line
IsUnwantedLine(line) ==
    LET line_upper == Strip(UpperStr(line))
    IN  \/ Contains(line_upper, GazetteOfIndia)
        \/ Contains(line_upper, Extraordinary)
        \/ MatchesPageNumber(line_upper)

RECURSIVE KeepLines(_)
KeepLines(lines) ==
    IF lines = <<>> THEN <<>>
    ELSE (IF IsUnwantedLine(Head(lines)) THEN <<>> ELSE <<Head(lines)>>)
         \o KeepLines(Tail(lines))

remove_unwanted_headers(text) == Join(KeepLines(Split(text, <<"NL">>)), <<"NL">>)

----------------------------------------------------------------------------
(* The language classifier and the filter (parsingText2.py:161-203).       *)

\* langdetect.detect, a library: its answer is modelled by the script of the
\* sentence's letters. "none" stands for LangDetectException (no letters).
detect(sentence) ==
    LET latin == Count(sentence, {i \in DOMAIN sentence : IsLatin(sentence[i])})
        deva == Count(sentence, {i \in DOMAIN sentence : IsDevanagari(sentence[i])})
        foreign == Count(sentence, {i \in DOMAIN sentence : IsForeign(sentence[i])})
    IN  IF latin + deva + foreign = 0 THEN "none"
        ELSE IF deva > latin + foreign THEN "hi"
        ELSE IF foreign > 0 THEN "fr"
        ELSE "en"

is_english_or_hindi_sentence(sentence) ==
    LET lang == detect(sentence)
    IN  lang = "en" \/ lang = "hi"

split_into_sentences(text) == Split(text, <<".">>)

\* the characters re.sub(r"[^a-zA-Z0-9\s\.,;:\-\(\)\[\]\'\"\/&•]", "", s) keeps
IsAllowedChar(c) ==
    \/ IsLatin(c)
    \/ IsDigit(c)
    \/ IsSpace(c)
    \/ c \in {".", ",", ";", ":", "-", "(", ")", "[", "]", "'", "QUOTE", "/", "&", "BULLET"}

\* re.sub(r"\s+", " ", s)
\* (the first character of each whitespace run becomes a space, the rest go)
CollapseSpaces(s) ==
    LET marked == [i \in DOMAIN s |->
                      IF ~IsSpace(s[i]) THEN s[i]
                      ELSE IF i > 1 /\ IsSpace(s[i - 1]) THEN "DROP"
                      ELSE " "]
        Kept(c) == c # "DROP"
    IN  SelectSeq(marked, Kept)

\* the loop body of clean_and_keep_only_english for one sentence: the
\* sentences it appends to valid_sentences (none or one)
CleanSentence(raw) ==
    LET s == Strip(raw)
    IN  IF s = <<>> THEN <<>>
        ELSE IF ~is_english_or_hindi_sentence(s) THEN <<>>
        ELSE LET t == Strip(CollapseSpaces(SelectSeq(s, IsAllowedChar)))
             IN  IF Len(t) > 0 THEN <<t>> ELSE <<>>

RECURSIVE ValidSentences(_)
ValidSentences(sentences) ==
    IF sentences = <<>> THEN <<>>
    ELSE CleanSentence(Head(sentences)) \o ValidSentences(Tail(sentences))

\* the default of clean_and_keep_only_english's min_length
MinLength == 50

\* a plausible slip: the minimum-length test left out
clean_without_min_length(text) ==
    Strip(Join(ValidSentences(split_into_sentences(remove_unwanted_headers(text))),
               <<".", " ">>))

clean_and_keep_only_english(text) ==
    LET final_text ==
            Strip(Join(ValidSentences(split_into_sentences(remove_unwanted_headers(text))),
                       <<".", " ">>))
    IN  IF Len(final_text) < MinLength THEN <<>> ELSE final_text

----------------------------------------------------------------------------
(* Sample texts: what a PDF's text layer or its OCR can hold.              *)

\* one long English sentence
EngLong == Rep("a", 60)
\* an English sentence shorter than min_length, with its period
EngMid == Rep("e", 30) \o <<".">>
\* a Hindi sentence
HinLong == Rep("KA", 60) \o <<".">>
\* a sentence in Hindi with some Latin text in it
Mixed == Rep("a", 20) \o <<" ">> \o Rep("HA", 30) \o <<".">>
\* text of another Latin-script language
Foreign == Rep("EA", 30) \o <<" ">>
\* a gazette header on a line of its own
HeaderLine == <<"NL">> \o GazetteOfIndia \o <<"NL">>
\* whitespace only
Blank == <<" ", "NL">>
\* symbols the allow-list drops
Symbols == <<"#", "#", ".">>

TextPieces == {EngLong, EngMid, HinLong, Mixed, Foreign, HeaderLine, Blank, Symbols}

NativeTexts == UpToPieces(TextPieces, MaxTextPieces)

OcrSamples == {<<>>, Blank, EngLong, EngMid, EngMid \o EngMid, HinLong}

----------------------------------------------------------------------------
(* extract_text_from_pdf (parsingText2.py:205-224).                        *)
(* nativeText is what extract_pdf_with_pymupdf returns for the file and    *)
(* ocrText what extract_pdf_with_ocr returns for it. exLog lists the       *)
(* extraction strategies in the order they were started.                   *)

\* Optional[str]
NoneResult == [isNone |-> TRUE, text |-> <<>>]
TextResult(t) == [isNone |-> FALSE, text |-> t]

\* a plausible slip: the raw native text accepted without looking at the
\* filter's result
NativeAcceptedUnfiltered(native_text) == Strip(native_text) # <<>>

\* a plausible slip: the native result never accepted
NativeNeverAccepted(native_text) == FALSE

\* lines 213-216: "if native_text.strip(): cleaned = ...; if cleaned: return"
NativeAccepted(native_text) ==
    /\ Strip(native_text) # <<>>
    /\ clean_and_keep_only_english(native_text) # <<>>

\* lines 220-224: what is returned for the OCR text
OcrResult(ocr_text) ==
    IF Strip(ocr_text) = <<>> THEN NoneResult
    ELSE LET cleaned_ocr == clean_and_keep_only_english(ocr_text)
         IN  IF cleaned_ocr # <<>> THEN TextResult(cleaned_ocr) ELSE NoneResult

\* lines 209-210
ExCheckFile ==
    /\ pcEx = "start"
    /\ IF fileIsFile
       THEN pcEx' = "native" /\ UNCHANGED exResult
       ELSE pcEx' = "done" /\ exResult' = NoneResult
    /\ UNCHANGED <<fileIsFile, nativeText, ocrText, exLog>>

\* lines 212-216: the native extraction returns, and its text is accepted or not
ExNative ==
    /\ pcEx = "native"
    /\ exLog' = Append(exLog, "native")
    /\ IF NativeAccepted(nativeText)
       THEN /\ pcEx' = "done"
            /\ exResult' = TextResult(clean_and_keep_only_english(nativeText))
       ELSE /\ pcEx' = "ocr"
            /\ UNCHANGED exResult
    /\ UNCHANGED <<fileIsFile, nativeText, ocrText>>

\* line 64: doc[page_index] of a damaged PDF raises, and nothing of
\* extract_pdf_with_pymupdf or extract_text_from_pdf catches it
ExNativeRaises ==
    /\ pcEx = "native"
    /\ exLog' = Append(exLog, "native")
    /\ pcEx' = "raised"
    /\ UNCHANGED <<fileIsFile, nativeText, ocrText, exResult>>

\* lines 218-224
ExOcr ==
    /\ pcEx = "ocr"
    /\ exLog' = Append(exLog, "ocr")
    /\ exResult' = OcrResult(ocrText)
    /\ pcEx' = "done"
    /\ UNCHANGED <<fileIsFile, nativeText, ocrText>>

\* the text the native strategy yields after the language filter
FilteredNative ==
    IF Strip(nativeText) # <<>> THEN clean_and_keep_only_english(nativeText) ELSE <<>>

\* the text the OCR strategy yields after the language filter
FilteredOcr ==
    IF Strip(ocrText) # <<>> THEN clean_and_keep_only_english(ocrText) ELSE <<>>

----------------------------------------------------------------------------
(* The thread pool of the OCR extractors (concurrent.futures).             *)
(* A task is the OCR call of one page. queue holds the submitted tasks no  *)
(* worker has taken yet, in submission order; running the pages being      *)
(* OCR'd; ocrOut the text each finished call returned; completed the pages *)
(* in the order their calls finished.                                      *)

\* the elements of a finite set of integers in ascending order
RECURSIVE Ascending(_)
Ascending(S) ==
    IF S = {} THEN <<>>
    ELSE LET m == CHOOSE x \in S : \A y \in S : x <= y
         IN  <<m>> \o Ascending(S \ {m})

\* the pages first..last in order (range(first, last + 1))
PageRange(first, last) == [i \in 1..(last - first + 1) |-> first + i - 1]

\* a plausible slip: the end of a chunk not clamped to the last page
MinUnclamped(a, b) == a

\* min(a, b)
Min(a, b) == IF a <= b THEN a ELSE b

\* the text OCR reads on page p
PageText(p) == <<"p", DigitChars[p + 1]>>

\* what one page's OCR call can return: the page's text, "" (ocr_image and
\* process_image return "" when the call raises; an empty page) or blanks
OcrOutcomes(p) == {PageText(p), <<>>, <<" ">>}

\* ThreadPoolExecutor(max_workers=4) of extract_pdf_with_ocr, and the default
\* of pdf_to_text's max_workers
DefaultMaxWorkers == 4
\* max_workers=8, as the Mongo pipelines call pdf_to_text
PipelineMaxWorkers == 8

\* a file that does not exist
NoFile == [exists |-> FALSE, text |-> <<>>]
FileWith(t) == [exists |-> TRUE, text |-> t]

\* executor.submit of every page of pages, in order
Submit(pages) == queue' = queue \o pages

\* a plausible slip: a thread started for each page, with no pool
WorkerTakeUnbounded ==
    /\ queue # <<>>
    /\ running' = running \cup {Head(queue)}
    /\ queue' = Tail(queue)
    /\ UNCHANGED <<extractor, pcOcr, totalPages, chunkSize, maxWorkers, chunkStart,
                   chunkPages, ocrOut, completed, doneAtCall, yielded, allText,
                   ocrReturn, outFile, rasterLog>>

\* an idle worker thread takes the oldest submitted task
WorkerTake ==
    /\ queue # <<>>
    /\ Cardinality(running) < maxWorkers
    /\ running' = running \cup {Head(queue)}
    /\ queue' = Tail(queue)
    /\ UNCHANGED <<extractor, pcOcr, totalPages, chunkSize, maxWorkers, chunkStart,
                   chunkPages, ocrOut, completed, doneAtCall, yielded, allText,
                   ocrReturn, outFile, rasterLog>>

\* the OCR call of a page returns (ocr_image, process_image): whichever of the
\* running calls finishes first
WorkerFinish ==
    \E p \in running :
        \E text \in OcrOutcomes(p) :
            /\ running' = running \ {p}
            /\ ocrOut' = ocrOut @@ (p :> text)
            /\ completed' = Append(completed, p)
            /\ UNCHANGED <<extractor, pcOcr, totalPages, chunkSize, maxWorkers,
                           chunkStart, chunkPages, queue, doneAtCall, yielded,
                           allText, ocrReturn, outFile, rasterLog>>

\* a plausible slip: the except branch hands back the page's text anyway
TextOfFailedCallKept(p) == PageText(p)

\* what the OCR call of page p returns when it raises inside: the except
\* branches of ocr_image (parsingText2.py:98-100) and of process_image
\* (OCR_parsing_hin.py:52-54) return ""
TextOfFailedCall(p) == <<>>

\* the image files in pdf_images after the call of page p raised.
\* process_image (OCR_parsing_hin.py:34-54): when image.save raised no file
\* was written; when image_to_string raised the file is there, and the
\* except branch at 52-54 returns without removing it. ocr_image
\* (parsingText2.py:91-100) works on the image in memory.
ImagesAfterFailure(p) ==
    IF extractor = "pdf_to_text" THEN {imageFiles, imageFiles \cup {p}}
    ELSE {imageFiles}

\* the OCR call of a running page raises (image.save or image_to_string); the
\* exception is caught inside the call, which returns to the pool
WorkerFails ==
    \E p \in running :
        /\ running' = running \ {p}
        /\ ocrOut' = ocrOut @@ (p :> TextOfFailedCall(p))
        /\ completed' = Append(completed, p)
        /\ ocrFailed' = ocrFailed \cup {p}
        /\ imageFiles' \in ImagesAfterFailure(p)
        /\ UNCHANGED <<extractor, pcOcr, totalPages, chunkSize, maxWorkers,
                       chunkStart, chunkPages, queue, doneAtCall, yielded,
                       allText, ocrReturn, outFile, rasterLog>>

AllDone(pages) == \A i \in DOMAIN pages : pages[i] \in DOMAIN ocrOut

----------------------------------------------------------------------------
(* extract_pdf_with_ocr (parsingText2.py:102-130).                         *)

\* a plausible slip: the results taken in the order the calls finished
\* (as_completed) instead of executor.map's order
MapResultsAsCompleted(pages, out) ==
    LET InChunk(q) == q \in Range(pages)
        order == SelectSeq(completed, InChunk)
    IN  [i \in DOMAIN order |-> out[order[i]]]

\* list(executor.map(ocr_image, images)): the results in the order of images
MapResults(pages, out) == [i \in DOMAIN pages |-> out[pages[i]]]

\* lines 107-116: no such file, or fitz.open raises: return ""
OcrOpenFails ==
    /\ extractor = "extract_pdf_with_ocr"
    /\ pcOcr = "start"
    /\ ocrReturn' = <<>>
    /\ pcOcr' = "done"
    /\ UNCHANGED <<extractor, totalPages, chunkSize, maxWorkers, chunkStart,
                   chunkPages, queue, running, ocrOut, completed, doneAtCall,
                   yielded, allText, outFile, rasterLog>>

\* lines 110-120: the page count is read, the pool made, the loop entered
OcrOpen ==
    /\ extractor = "extract_pdf_with_ocr"
    /\ pcOcr = "start"
    /\ chunkStart' = 1
    /\ pcOcr' = "loop"
    /\ UNCHANGED <<extractor, totalPages, chunkSize, maxWorkers, chunkPages,
                   queue, running, ocrOut, completed, doneAtCall, yielded,
                   allText, ocrReturn, outFile, rasterLog>>

\* lines 120-127: the next chunk is rasterized and executor.map submits the
\* OCR call of each of its images
OcrRasterize ==
    /\ extractor = "extract_pdf_with_ocr"
    /\ pcOcr = "loop"
    /\ chunkStart <= totalPages
    /\ LET chunk_end == Min(chunkStart + chunkSize - 1, totalPages)
       IN  /\ rasterLog' = Append(rasterLog, <<chunkStart, chunk_end>>)
           /\ chunkPages' = PageRange(chunkStart, chunk_end)
           /\ Submit(PageRange(chunkStart, chunk_end))
    /\ pcOcr' = "map"
    /\ UNCHANGED <<extractor, totalPages, chunkSize, maxWorkers, chunkStart,
                   running, ocrOut, completed, doneAtCall, yielded, allText,
                   ocrReturn, outFile>>

\* lines 122-126: convert_pdf_to_images returns None (or no image): continue
OcrRasterizeFails ==
    /\ extractor = "extract_pdf_with_ocr"
    /\ pcOcr = "loop"
    /\ chunkStart <= totalPages
    /\ rasterLog' = Append(rasterLog,
                           <<chunkStart, Min(chunkStart + chunkSize - 1, totalPages)>>)
    /\ chunkStart' = chunkStart + chunkSize
    /\ UNCHANGED <<extractor, pcOcr, totalPages, chunkSize, maxWorkers, chunkPages,
                   queue, running, ocrOut, completed, doneAtCall, yielded,
                   allText, ocrReturn, outFile>>

\* a plausible slip: the calls submitted and the loop going on as soon as
\* every call was started, with the results that are there
OcrCollectEarly ==
    /\ extractor = "extract_pdf_with_ocr"
    /\ pcOcr = "map"
    /\ queue = <<>>
    /\ LET Finished(p) == p \in DOMAIN ocrOut
       IN  allText' = allText \o MapResults(SelectSeq(chunkPages, Finished), ocrOut)
    /\ chunkStart' = chunkStart + chunkSize
    /\ chunkPages' = <<>>
    /\ pcOcr' = "loop"
    /\ UNCHANGED <<extractor, totalPages, chunkSize, maxWorkers, queue, running,
                   ocrOut, completed, doneAtCall, yielded, ocrReturn, outFile,
                   rasterLog>>

\* lines 127-128: list(...) has waited for every call of the chunk;
\* all_text.extend(results)
OcrCollect ==
    /\ extractor = "extract_pdf_with_ocr"
    /\ pcOcr = "map"
    /\ AllDone(chunkPages)
    /\ allText' = allText \o MapResults(chunkPages, ocrOut)
    /\ chunkStart' = chunkStart + chunkSize
    /\ chunkPages' = <<>>
    /\ pcOcr' = "loop"
    /\ UNCHANGED <<extractor, totalPages, chunkSize, maxWorkers, queue, running,
                   ocrOut, completed, doneAtCall, yielded, ocrReturn, outFile,
                   rasterLog>>

\* line 130: return "\n".join(all_text)
OcrReturn ==
    /\ extractor = "extract_pdf_with_ocr"
    /\ pcOcr = "loop"
    /\ chunkStart > totalPages
    /\ ocrReturn' = Join(allText, <<"NL">>)
    /\ pcOcr' = "done"
    /\ UNCHANGED <<extractor, totalPages, chunkSize, maxWorkers, chunkStart,
                   chunkPages, queue, running, ocrOut, completed, doneAtCall,
                   yielded, allText, outFile, rasterLog>>

----------------------------------------------------------------------------
(* pdf_to_text (OCR_parsing_hin.py:57-116). Pages are indexed from 0.      *)

\* line 92: "if text and text.strip()"
IsNonBlank(text) == text # <<>> /\ Strip(text) # <<>>

\* lines 78, 114-116: convert_from_path raises: return "", nothing is written
P2TConvertFails ==
    /\ extractor = "pdf_to_text"
    /\ pcOcr = "start"
    /\ ocrReturn' = <<>>
    /\ pcOcr' = "done"
    /\ UNCHANGED <<extractor, totalPages, chunkSize, maxWorkers, chunkStart,
                   chunkPages, queue, running, ocrOut, completed, doneAtCall,
                   yielded, allText, outFile, rasterLog>>

\* lines 78-87: every page is rasterized and its process_image call submitted
P2TSubmit ==
    /\ extractor = "pdf_to_text"
    /\ pcOcr = "start"
    /\ rasterLog' = Append(rasterLog, <<0, totalPages - 1>>)
    /\ chunkPages' = PageRange(0, totalPages - 1)
    /\ Submit(PageRange(0, totalPages - 1))
    /\ pcOcr' = "submitted"
    /\ UNCHANGED <<extractor, totalPages, chunkSize, maxWorkers, chunkStart,
                   running, ocrOut, completed, doneAtCall, yielded, allText,
                   ocrReturn, outFile>>

\* line 89: as_completed(futures) is called; the futures already finished will
\* be yielded first
P2TAsCompleted ==
    /\ extractor = "pdf_to_text"
    /\ pcOcr = "submitted"
    /\ doneAtCall' = DOMAIN ocrOut
    /\ pcOcr' = "as_completed"
    /\ UNCHANGED <<extractor, totalPages, chunkSize, maxWorkers, chunkStart,
                   chunkPages, queue, running, ocrOut, completed, yielded,
                   allText, ocrReturn, outFile, rasterLog>>

\* the futures as_completed can yield next: one of those finished before it
\* was called (a set: any order), then the others in the order they finish
NextYield ==
    LET early == doneAtCall \ Range(yielded)
        NotYet(q) == q \notin Range(yielded) /\ q \notin doneAtCall
        late == SelectSeq(completed, NotYet)
    IN  IF early # {} THEN early
        ELSE IF late # <<>> THEN {Head(late)}
        ELSE {}

\* lines 89-93: one turn of the loop over as_completed(futures)
P2TGather ==
    /\ extractor = "pdf_to_text"
    /\ pcOcr = "as_completed"
    /\ \E g \in NextYield :
           /\ yielded' = Append(yielded, g)
           /\ allText' = IF IsNonBlank(ocrOut[g]) THEN Append(allText, ocrOut[g])
                         ELSE allText
    /\ UNCHANGED <<extractor, pcOcr, totalPages, chunkSize, maxWorkers, chunkStart,
                   chunkPages, queue, running, ocrOut, completed, doneAtCall,
                   ocrReturn, outFile, rasterLog>>

\* lines 97-112: every future was yielded; the text is written, every
\* page_ file left in pdf_images is removed, and the text is returned
P2TWrite ==
    /\ extractor = "pdf_to_text"
    /\ pcOcr = "as_completed"
    /\ Len(yielded) = Len(chunkPages)
    /\ imageFiles' = {}
    /\ outFile' = FileWith(Join(allText, <<"NL">>))
    /\ ocrReturn' = Join(allText, <<"NL">>)
    /\ pcOcr' = "done"
    /\ UNCHANGED <<extractor, totalPages, chunkSize, maxWorkers, chunkStart,
                   chunkPages, queue, running, ocrOut, completed, doneAtCall,
                   yielded, allText, rasterLog>>

----------------------------------------------------------------------------
(* The acquisition paths: download, validation, extraction, cleanup.       *)
(*   en_extract    en_extract.process_document                             *)
(*   en_hin_eng    en_hin_extract.extract_content(url, 'eng')              *)
(*   en_hin_hin    en_hin_extract.extract_content(url, 'hin')              *)
(*   extract_eng   extract.process_document, the English branch            *)
(*   extract_hin   extract.process_document, the Hindi branch              *)
(*   pt2_url       parsingText2.extract_text_from_pdf_url                  *)
(*   ocr_main      OCR_parsing_hin.main                                    *)
(* fileSize is the size of the path's local PDF file, -1 when there is no  *)
(* file. requests lists the HTTP requests issued, attemptLog the turns of  *)
(* the retry loop, events the extractions started with the size of the    *)
(* file they were started on.                                              *)

\* the paths whose retry loop calls download_pdf(fix_url(url), pdf_path)
EnPaths == {"en_extract", "en_hin_eng", "en_hin_hin"}
\* the paths whose retry loop calls download_pdf_temp(url)
ExtractPaths == {"extract_eng", "extract_hin"}
LoopPaths == EnPaths \cup ExtractPaths
\* the paths that extract with parsingText2.extract_text_from_pdf
NativeFirstPaths == {"extract_eng", "pt2_url"}
AllPaths == LoopPaths \cup {"pt2_url", "ocr_main"}

\* max_retries = 3
max_retries == 3
\* time.sleep(2)
RetryDelay == 2
\* "os.path.getsize(pdf_path) > 1000"
MinPdfSize == 1000
\* download_pdf_temp only warns below 100 bytes
SmallFileSize == 100

\* a plausible slip: the retry loop's test made with download_pdf_temp's
\* threshold of 100 bytes
FileIsPlausiblePdfSmall(size) == size # -1 /\ size > SmallFileSize

\* "os.path.exists(pdf_path) and os.path.getsize(pdf_path) > 1000"
FileIsPlausiblePdf(size) == size # -1 /\ size > MinPdfSize

\* the URL the path's download function is called with, which is the URL its
\* GET goes to: download_pdf(fix_url(url), ...), download_pdf_temp's
\* fixed_url; extract_text_from_pdf_url and OCR_parsing_hin.main pass the URL
\* on as it is
RequestUrl(p, url) == IF p \in LoopPaths THEN fix_url(url) ELSE url

\* source URLs: with the pattern, without it, with the pattern twice
PipeUrls ==
    { <<"x">> \o DoWeb \o <<"y">>,
      <<"x", "d", "o", "?", "y">>,
      DoWeb \o <<"x">> \o DoWeb }

\* where the origin redirects a HEAD request to
Redirected == <<"r">>

\* what a downloaded PDF holds: its size, and the text its text layer and its
\* OCR yield (none for an empty body)
PipeNativeSamples == {<<>>, EngLong, HinLong}
PipeOcrSamples == {<<>>, EngLong}
Bodies(p) ==
    {[size |-> 0, native |-> <<>>, ocr |-> <<>>]}
    \cup {[size |-> sz, native |-> n, ocr |-> o] :
             sz \in {MinPdfSize, MinPdfSize + 1},
             n \in (IF p \in NativeFirstPaths THEN PipeNativeSamples ELSE {<<>>}),
             o \in PipeOcrSamples}

Get(u) == [method |-> "GET", url |-> u]
Head_(u) == [method |-> "HEAD", url |-> u]

\* the file a response body is written to
WriteBody(b) ==
    /\ fileSize' = b.size
    /\ nativeText' = b.native
    /\ ocrText' = b.ocr

\* one turn of "for attempt in range(max_retries)" whose download raises
\* (network error, non-2xx status): en_extract.py:74-88,
\* en_hin_extract.py:64-78, extract.py:146-159 with download_pdf_temp's
\* except branch, which leaves an empty file
PipeAttemptRaises ==
    /\ path \in LoopPaths
    /\ pcPipe = "retry"
    /\ attempt < max_retries
    /\ requests' = Append(requests, Get(RequestUrl(path, srcUrl)))
    /\ IF path \in ExtractPaths
       THEN WriteBody([size |-> 0, native |-> <<>>, ocr |-> <<>>])
       ELSE UNCHANGED <<fileSize, nativeText, ocrText>>
    /\ attemptLog' = Append(attemptLog,
           [size |-> IF path \in ExtractPaths THEN 0 ELSE fileSize,
            slept |-> IF attempt < max_retries - 1 THEN RetryDelay ELSE 0])
    /\ attempt' = attempt + 1
    /\ pcPipe' = IF attempt + 1 < max_retries THEN "retry" ELSE "validate"
    /\ UNCHANGED <<path, srcUrl, events, content, pcEx, fileIsFile, exLog, exResult>>

\* one turn of the retry loop whose download writes the response body
PipeAttempt ==
    /\ path \in LoopPaths
    /\ pcPipe = "retry"
    /\ attempt < max_retries
    /\ requests' = Append(requests, Get(RequestUrl(path, srcUrl)))
    /\ \E b \in Bodies(path) :
           /\ WriteBody(b)
           /\ IF FileIsPlausiblePdf(b.size)
              THEN /\ attemptLog' = Append(attemptLog, [size |-> b.size, slept |-> 0])
                   /\ pcPipe' = "validate"
                   /\ UNCHANGED attempt
              ELSE /\ attemptLog' = Append(attemptLog,
                          [size |-> b.size,
                           slept |-> IF attempt < max_retries - 1 THEN RetryDelay ELSE 0])
                   /\ attempt' = attempt + 1
                   /\ pcPipe' = IF attempt + 1 < max_retries THEN "retry" ELSE "validate"
    /\ UNCHANGED <<path, srcUrl, events, content, pcEx, fileIsFile, exLog, exResult>>

\* after the loop: "if os.path.exists(pdf_path) and os.path.getsize(pdf_path)
\* > 1000" (en_extract.py:92, en_hin_extract.py:81, extract.py:162 and 200)
PipeValidate ==
    /\ path \in LoopPaths
    /\ pcPipe = "validate"
    /\ IF FileIsPlausiblePdf(fileSize)
       THEN IF path \in NativeFirstPaths
            THEN pcPipe' = "extract" /\ pcEx' = "start" /\ fileIsFile' = TRUE
            ELSE pcPipe' = "ocr" /\ UNCHANGED <<pcEx, fileIsFile>>
       ELSE pcPipe' = "cleanup" /\ UNCHANGED <<pcEx, fileIsFile>>
    /\ UNCHANGED <<path, srcUrl, attempt, fileSize, requests, attemptLog, events,
                   content, nativeText, ocrText, exLog, exResult>>

\* parsingText2.py:243-263: HEAD to the URL, GET to the final URL, the body
\* saved to temp.pdf; a RequestException of either ends the call with None
PT2Download ==
    /\ path = "pt2_url"
    /\ pcPipe = "start"
    /\ \/ /\ requests' = Append(requests, Head_(srcUrl))
          /\ pcPipe' = "done"
          /\ UNCHANGED <<fileSize, nativeText, ocrText, pcEx, fileIsFile>>
       \/ \E final_url \in {srcUrl, Redirected} :
             /\ requests' = requests \o <<Head_(srcUrl), Get(final_url)>>
             /\ \/ /\ pcPipe' = "done"
                   /\ UNCHANGED <<fileSize, nativeText, ocrText, pcEx, fileIsFile>>
                \/ \E b \in Bodies(path) :
                      /\ WriteBody(b)
                      /\ pcPipe' = "extract"
                      /\ pcEx' = "start"
                      /\ fileIsFile' = TRUE
    /\ UNCHANGED <<path, srcUrl, attempt, attemptLog, events, content, exLog,
                   exResult>>

\* OCR_parsing_hin.py:119-124 with download_pdf (13-29): GET to the URL given,
\* raise_for_status, the body written; an exception ends main
OcrMainDownload ==
    /\ path = "ocr_main"
    /\ pcPipe = "start"
    /\ requests' = Append(requests, Get(RequestUrl(path, srcUrl)))
    /\ \/ pcPipe' = "crashed" /\ UNCHANGED <<fileSize, nativeText, ocrText>>
       \/ \E b \in Bodies(path) : WriteBody(b) /\ pcPipe' = "ocr"
    /\ UNCHANGED <<path, srcUrl, attempt, attemptLog, events, content, pcEx,
                   fileIsFile, exLog, exResult>>

\* the extraction started is put on record with the size of its file
LogEvent(kind) == events' = Append(events, [kind |-> kind, size |-> fileSize])

\* pdf_to_text(pdf_path, ...) called on the downloaded file (en_extract.py:94,
\* en_hin_extract.py:83-86, extract.py:110 and 201, OCR_parsing_hin.py:127)
PipeOcr ==
    /\ pcPipe = "ocr"
    /\ LogEvent("ocr")
    /\ content' = ocrText
    /\ pcPipe' = IF path = "ocr_main" THEN "done" ELSE "cleanup"
    /\ UNCHANGED <<path, srcUrl, attempt, fileSize, requests, attemptLog,
                   exVars>>

\* extract_text_from_pdf(path), step by step, called from
\* extract_english_content (extract.py:94) or extract_text_from_pdf_url
\* (parsingText2.py:266)
PipeExCheckFile ==
    /\ pcPipe = "extract"
    /\ ExCheckFile
    /\ UNCHANGED pipeVars

PipeExNative ==
    /\ pcPipe = "extract"
    /\ ExNative
    /\ LogEvent("native")
    /\ UNCHANGED <<path, srcUrl, pcPipe, attempt, fileSize, requests, attemptLog,
                   content>>

PipeExNativeRaises ==
    /\ pcPipe = "extract"
    /\ ExNativeRaises
    /\ LogEvent("native")
    /\ UNCHANGED <<path, srcUrl, pcPipe, attempt, fileSize, requests, attemptLog,
                   content>>

PipeExOcr ==
    /\ pcPipe = "extract"
    /\ ExOcr
    /\ LogEvent("ocr")
    /\ UNCHANGED <<path, srcUrl, pcPipe, attempt, fileSize, requests, attemptLog,
                   content>>

\* extract_text_from_pdf has returned or raised: extract.py:94-98 ("or ''",
\* the except) then the cleanup; parsingText2.py:268-283, which removes
\* temp.pdf only when the call returned
PipeExtractEnds ==
    /\ pcPipe = "extract"
    /\ pcEx \in {"done", "raised"}
    /\ content' = IF pcEx = "done" /\ ~exResult.isNone THEN exResult.text ELSE <<>>
    /\ IF path = "pt2_url"
       THEN /\ pcPipe' = "done"
            /\ fileSize' = IF pcEx = "done" THEN -1 ELSE fileSize
       ELSE /\ pcPipe' = "cleanup"
            /\ UNCHANGED fileSize
    /\ UNCHANGED <<path, srcUrl, attempt, requests, attemptLog, events, exVars>>

\* "if os.path.exists(pdf_path): os.remove(pdf_path)" (en_extract.py:102-108,
\* en_hin_extract.py:95-101, extract.py:169-170 and 207-208)
PipeCleanup ==
    /\ pcPipe = "cleanup"
    /\ fileSize' = -1
    /\ pcPipe' = "done"
    /\ UNCHANGED <<path, srcUrl, attempt, requests, attemptLog, events, content,
                   exVars>>

----------------------------------------------------------------------------
(* Idle values: the parts of the state a specification does not use.       *)

IdleUrl == pcUrl = "idle" /\ url0 = <<>> /\ url1 = <<>> /\ url2 = <<>>

IdleEx ==
    /\ pcEx = "idle"
    /\ fileIsFile = FALSE
    /\ nativeText = <<>>
    /\ ocrText = <<>>
    /\ exLog = <<>>
    /\ exResult = NoneResult

IdleOcr ==
    /\ extractor = "none"
    /\ pcOcr = "idle"
    /\ totalPages = 0
    /\ chunkSize = 0
    /\ maxWorkers = 0
    /\ chunkStart = 0
    /\ chunkPages = <<>>
    /\ queue = <<>>
    /\ running = {}
    /\ ocrOut = <<>>
    /\ completed = <<>>
    /\ doneAtCall = {}
    /\ yielded = <<>>
    /\ allText = <<>>
    /\ ocrReturn = <<>>
    /\ outFile = NoFile
    /\ rasterLog = <<>>
    /\ ocrFailed = {}
    /\ imageFiles = {}

IdlePipe ==
    /\ path = "none"
    /\ srcUrl = <<>>
    /\ pcPipe = "idle"
    /\ attempt = 0
    /\ fileSize = -1
    /\ requests = <<>>
    /\ attemptLog = <<>>
    /\ events = <<>>
    /\ content = <<>>

IdleNat ==
    /\ pcNat = "idle"
    /\ pdfPages = <<>>
    /\ pageIndex = 0
    /\ allTextChunks = <<>>
    /\ natReturn = <<>>

IdleFilter ==
    /\ pcFilter = "idle"
    /\ filterIn = <<>>
    /\ filtered1 = <<>>
    /\ filtered2 = <<>>

IdleDoc ==
    /\ pipeline = "none"
    /\ batch = <<>>
    /\ stored = <<>>
    /\ docIdx = 0
    /\ pcDoc = "idle"
    /\ doc = <<>>
    /\ acqLog = <<>>
    /\ handled = <<>>
    /\ finalCleanup = FALSE
    /\ dbFailed = FALSE

IdleSplit ==
    /\ pcSplit = "idle"
    /\ jsonl = <<>>
    /\ data = <<>>
    /\ train_data = <<>>
    /\ dev_data = <<>>
    /\ files = <<>>

IdleProc ==
    /\ procProg = <<>>
    /\ procPc = <<>>
    /\ fsFiles = {}
    /\ inUse = <<>>
    /\ clashes = {}

IdlePairs ==
    /\ pcPairs = "idle"
    /\ triples = <<>>
    /\ threshold = 0
    /\ matches = <<>>
    /\ pairs = {}

IdleTemp ==
    /\ runPipeline = "none"
    /\ pcRun = "idle"
    /\ docNo = 0
    /\ langsLeft = <<>>
    /\ tryNo = 0
    /\ disk = <<>>
    /\ got = <<>>
    /\ newFields = <<>>
    /\ inputsUsed = {}
    /\ writes = {}

IdleMore == IdleSplit /\ IdleProc /\ IdlePairs /\ IdleTemp

IdleLater == IdleNat /\ IdleFilter /\ IdleDoc /\ IdleMore

----------------------------------------------------------------------------
(* SpecUrl: fix_url applied to a URL, then to its own result.              *)

InitUrl ==
    /\ pcUrl = "start"
    /\ url0 \in Urls
    /\ url1 = <<>>
    /\ url2 = <<>>
    /\ IdleEx /\ IdleOcr /\ IdlePipe /\ IdleLater

FixOnce ==
    /\ pcUrl = "start"
    /\ url1' = fix_url(url0)
    /\ pcUrl' = "once"
    /\ UNCHANGED <<url0, url2, exVars, ocrVars, pipeVars, ocrFailed, imageFiles, laterVars>>

FixTwice ==
    /\ pcUrl = "once"
    /\ url2' = fix_url(url1)
    /\ pcUrl' = "twice"
    /\ UNCHANGED <<url0, url1, exVars, ocrVars, pipeVars, ocrFailed, imageFiles, laterVars>>

NextUrl == FixOnce \/ FixTwice

SpecUrl == InitUrl /\ [][NextUrl]_vars

----------------------------------------------------------------------------
(* SpecEx: one call of extract_text_from_pdf on a file.                    *)

InitEx ==
    /\ pcEx = "start"
    /\ fileIsFile \in BOOLEAN
    /\ nativeText \in NativeTexts
    /\ ocrText \in OcrSamples
    /\ exLog = <<>>
    /\ exResult = NoneResult
    /\ IdleUrl /\ IdleOcr /\ IdlePipe /\ IdleLater

NextEx ==
    \/ ExCheckFile /\ UNCHANGED exFrame
    \/ ExNative /\ UNCHANGED exFrame
    \/ ExNativeRaises /\ UNCHANGED exFrame
    \/ ExOcr /\ UNCHANGED exFrame

SpecEx == InitEx /\ [][NextEx]_vars

----------------------------------------------------------------------------
(* Claims about fix_url, checked under SpecUrl.                            *)

\* C7: fix_url is idempotent, fix_url(fix_url(u)) = fix_url(u) for every URL
\* u, and it returns a URL that does not contain doWeb as it is.
C7_FixUrlIdempotent ==
    /\ pcUrl = "twice" => url2 = url1
    /\ (pcUrl \in {"once", "twice"} /\ ~Contains(url0, DoWeb)) => url1 = url0

\* a URL with the pattern was rewritten, and rewriting the result changed nothing
C7_Witness ==
    /\ pcUrl = "twice"
    /\ Contains(url0, DoWeb)
    /\ url1 # url0
    /\ url2 = url1

----------------------------------------------------------------------------
(* Claims about extract_text_from_pdf, checked under SpecEx.               *)

\* C1: when the native text of the file is non-empty after the language
\* filter, extract_pdf_with_ocr is never started and the value returned is
\* exactly the filtered native text.
C1_NativeShortCircuit ==
    (pcEx \in {"ocr", "done"} /\ exLog # <<>> /\ FilteredNative # <<>>)
        => /\ pcEx = "done"
           /\ exLog = <<"native">>
           /\ exResult = TextResult(FilteredNative)

\* the native text was accepted, and the filter had changed it
C1_Witness ==
    /\ pcEx = "done"
    /\ exLog = <<"native">>
    /\ ~exResult.isNone
    /\ exResult.text # nativeText
    /\ Len(exResult.text) >= MinLength

\* C5: one call follows START -> native -> (accept native | OCR) -> (accept
\* OCR | reject) -> done: each strategy is started at most once, OCR only
\* after native, OCR exactly once when the native extraction returned and its
\* filtered text is empty, and nothing is started after OCR.
C5_StrategyOrder ==
    /\ exLog \in {<<>>, <<"native">>, <<"native", "ocr">>}
    /\ pcEx = "start" => exLog = <<>>
    /\ pcEx = "native" => exLog = <<>>
    /\ pcEx = "ocr" => exLog = <<"native">>
    /\ pcEx = "raised" => exLog = <<"native">>
    /\ (pcEx = "done" /\ exLog # <<>> /\ FilteredNative = <<>>)
           => exLog = <<"native", "ocr">>
    /\ (pcEx = "done" /\ exLog # <<>> /\ FilteredNative # <<>>)
           => exLog = <<"native">>

\* the call fell back to OCR and accepted its text
C5_Witness ==
    /\ pcEx = "done"
    /\ exLog = <<"native", "ocr">>
    /\ Strip(nativeText) # <<>>
    /\ ~exResult.isNone

\* C6: the result of extract_text_from_pdf, and of the filter, is a text of at
\* least 50 characters or the empty outcome, never a shorter non-empty text;
\* when the filtered native and the filtered OCR text are both empty the call
\* returns the empty outcome (None) and does not raise.
C6_ResultTextOrEmpty ==
    /\ pcEx = "done" =>
           \/ exResult = NoneResult
           \/ ~exResult.isNone /\ Len(exResult.text) >= MinLength
    /\ \A t \in {nativeText, ocrText} :
           LET c == clean_and_keep_only_english(t)
           IN  c = <<>> \/ Len(c) >= MinLength
    /\ (exLog = <<"native", "ocr">> /\ FilteredNative = <<>> /\ FilteredOcr = <<>>)
           => pcEx = "done" /\ exResult = NoneResult
    /\ pcEx = "raised" => exLog = <<"native">>

\* both strategies yielded English text too short to keep: the call returned None
C6_Witness ==
    /\ pcEx = "done"
    /\ exLog = <<"native", "ocr">>
    /\ nativeText = EngMid
    /\ ocrText = EngMid
    /\ exResult = NoneResult

----------------------------------------------------------------------------
(* SpecOcr: one call of an OCR extractor on a PDF of totalPages pages.     *)

InitOcr ==
    /\ extractor \in {"extract_pdf_with_ocr", "pdf_to_text"}
    /\ pcOcr = "start"
    /\ totalPages \in 0..MaxPages
    /\ IF extractor = "extract_pdf_with_ocr"
       THEN chunkSize \in 1..MaxChunkSize /\ maxWorkers = DefaultMaxWorkers
       ELSE chunkSize = 0 /\ maxWorkers \in {DefaultMaxWorkers, PipelineMaxWorkers}
    /\ chunkStart = 0
    /\ chunkPages = <<>>
    /\ queue = <<>>
    /\ running = {}
    /\ ocrOut = <<>>
    /\ completed = <<>>
    /\ doneAtCall = {}
    /\ yielded = <<>>
    /\ allText = <<>>
    /\ ocrReturn = <<>>
    /\ outFile = NoFile
    /\ rasterLog = <<>>
    /\ ocrFailed = {}
    /\ imageFiles = {}
    /\ IdleUrl /\ IdleEx /\ IdlePipe /\ IdleLater

NextOcr ==
    \/ WorkerTake /\ UNCHANGED ocrFrame
    \/ WorkerFinish /\ UNCHANGED ocrFrame
    \/ WorkerFails /\ UNCHANGED <<urlVars, exVars, pipeVars, laterVars>>
    \/ OcrOpenFails /\ UNCHANGED ocrFrame
    \/ OcrOpen /\ UNCHANGED ocrFrame
    \/ OcrRasterize /\ UNCHANGED ocrFrame
    \/ OcrRasterizeFails /\ UNCHANGED ocrFrame
    \/ OcrCollect /\ UNCHANGED ocrFrame
    \/ OcrReturn /\ UNCHANGED ocrFrame
    \/ P2TConvertFails /\ UNCHANGED ocrFrame
    \/ P2TSubmit /\ UNCHANGED ocrFrame
    \/ P2TAsCompleted /\ UNCHANGED ocrFrame
    \/ P2TGather /\ UNCHANGED ocrFrame
    \/ P2TWrite /\ UNCHANGED <<urlVars, exVars, pipeVars, ocrFailed, laterVars>>

SpecOcr == InitOcr /\ [][NextOcr]_vars

----------------------------------------------------------------------------
(* Claims about the OCR extractors, checked under SpecOcr.                 *)

\* the texts of the pages of S, in ascending page order
InPageOrder(S) == [i \in 1..Cardinality(S) |-> ocrOut[Ascending(S)[i]]]

\* C2: whatever the page count, the chunk size and the order in which the
\* worker threads finish, extract_pdf_with_ocr returns the OCR results of
\* the pages it OCR'd joined in ascending page order.
C2_OcrPageOrder ==
    (extractor = "extract_pdf_with_ocr" /\ pcOcr = "done")
        => ocrReturn = Join(InPageOrder(DOMAIN ocrOut), <<"NL">>)

\* a later page's OCR call finished before an earlier one's, and the text
\* returned has both pages' texts
C2_Witness ==
    /\ extractor = "extract_pdf_with_ocr"
    /\ pcOcr = "done"
    /\ \E i, j \in DOMAIN completed :
           /\ i < j
           /\ completed[i] > completed[j]
           /\ ocrOut[completed[i]] = PageText(completed[i])
           /\ ocrOut[completed[j]] = PageText(completed[j])
    /\ ocrReturn # <<>>

\* the non-blank texts of the pages of S, in ascending page order
NonBlankInPageOrder(S) == SelectSeq(InPageOrder(S), IsNonBlank)

\* C3: for every interleaving of the worker threads, the text pdf_to_text
\* writes and returns is the non-blank page texts in ascending page index
\* order, not in the order the futures complete.
C3_PdfToTextPageOrder ==
    (extractor = "pdf_to_text" /\ pcOcr = "done" /\ outFile.exists)
        => /\ ocrReturn = Join(NonBlankInPageOrder(DOMAIN ocrOut), <<"NL">>)
           /\ outFile.text = ocrReturn

\* the pages whose OCR call was submitted to the pool
SubmittedPages == Range(queue) \cup running \cup Range(completed)

\* C13: when the OCR call of a page fails, the page contributes empty text,
\* every submitted page is still OCR'd exactly once, and the extractor
\* returns the texts of the other pages: extract_pdf_with_ocr one text per
\* page in page order, pdf_to_text the non-blank texts of the other pages.
C13_PageFailureIsolated ==
    /\ \A p \in ocrFailed : p \in DOMAIN ocrOut /\ ocrOut[p] = <<>>
    /\ \A i, j \in DOMAIN completed : completed[i] = completed[j] => i = j
    /\ (pcOcr = "done" /\ ocrFailed # {}) =>
           /\ queue = <<>>
           /\ running = {}
           /\ DOMAIN ocrOut = SubmittedPages
           /\ IF extractor = "extract_pdf_with_ocr"
              THEN /\ Len(allText) = Cardinality(SubmittedPages)
                   /\ ocrReturn = Join(InPageOrder(SubmittedPages), <<"NL">>)
              ELSE /\ Range(allText) =
                          {ocrOut[p] : p \in {q \in SubmittedPages \ ocrFailed :
                                                  IsNonBlank(ocrOut[q])}}
                   /\ Len(allText) = Cardinality(Range(allText))
                   /\ ocrReturn = Join(allText, <<"NL">>)
                   /\ outFile = FileWith(ocrReturn)

\* the OCR call of one page failed while those of two other pages returned
\* their text, and the extractor returned with the two texts
C13_Witness ==
    /\ pcOcr = "done"
    /\ Cardinality(ocrFailed) = 1
    /\ Cardinality({p \in DOMAIN ocrOut : ocrOut[p] = PageText(p)}) = 2
    /\ \E p \in ocrFailed : \E q \in DOMAIN ocrOut : p < q /\ ocrOut[q] = PageText(q)
    /\ Len(ocrReturn) >= 2 * Len(PageText(0))

----------------------------------------------------------------------------
(* SpecPipe: one acquisition of one source URL on one of the paths.        *)

InitPipe ==
    /\ path \in AllPaths
    /\ srcUrl \in PipeUrls
    /\ pcPipe = IF path \in LoopPaths THEN "retry" ELSE "start"
    /\ attempt = 0
    /\ fileSize = -1
    /\ requests = <<>>
    /\ attemptLog = <<>>
    /\ events = <<>>
    /\ content = <<>>
    /\ IdleUrl /\ IdleEx /\ IdleOcr /\ IdleLater

NextPipe ==
    \/ PipeAttemptRaises /\ UNCHANGED pipeFrame
    \/ PipeAttempt /\ UNCHANGED pipeFrame
    \/ PipeValidate /\ UNCHANGED pipeFrame
    \/ PT2Download /\ UNCHANGED pipeFrame
    \/ OcrMainDownload /\ UNCHANGED pipeFrame
    \/ PipeOcr /\ UNCHANGED pipeFrame
    \/ PipeExCheckFile /\ UNCHANGED pipeFrame
    \/ PipeExNative /\ UNCHANGED pipeFrame
    \/ PipeExNativeRaises /\ UNCHANGED pipeFrame
    \/ PipeExOcr /\ UNCHANGED pipeFrame
    \/ PipeExtractEnds /\ UNCHANGED pipeFrame
    \/ PipeCleanup /\ UNCHANGED pipeFrame

SpecPipe == InitPipe /\ [][NextPipe]_vars

----------------------------------------------------------------------------
(* Claims about the acquisition paths, checked under SpecPipe.             *)

\* the pipelines C4 names: en_extract.process_document,
\* en_hin_extract.extract_content, extract.process_document and
\* extract_text_from_pdf (reached through extract_text_from_pdf_url)
C4Pipelines == LoopPaths \cup {"pt2_url"}

C8_NoRequestWithDoWeb ==
    \A i \in DOMAIN requests : ~Contains(requests[i].url, DoWeb)

\* C9: the retry loop makes at most 3 attempts, stops at the first attempt
\* after which the file exists with more than 1000 bytes, sleeps 2 seconds
\* after each failed attempt except the third, and makes no attempt after a
\* successful one.
C9_RetryLoop ==
    path \in LoopPaths =>
        /\ Len(attemptLog) <= 3
        /\ Len(requests) = Len(attemptLog)
        /\ \A i \in DOMAIN attemptLog :
               /\ attemptLog[i].size > 1000 => i = Len(attemptLog) /\ pcPipe # "retry"
               /\ attemptLog[i].slept =
                      IF attemptLog[i].size <= 1000 /\ i < 3 THEN 2 ELSE 0
        /\ pcPipe # "retry" =>
               /\ attemptLog # <<>>
               /\ Len(attemptLog) = 3 \/ attemptLog[Len(attemptLog)].size > 1000
        /\ pcPipe = "retry" => Len(attemptLog) < 3

\* two attempts failed, each followed by a sleep, and the third succeeded
C9_Witness ==
    /\ path \in LoopPaths
    /\ pcPipe = "validate"
    /\ Len(attemptLog) = 3
    /\ attemptLog[1].slept = 2
    /\ attemptLog[2].slept = 2
    /\ attemptLog[3].size > 1000

\* C10: no extractor, native or OCR, is started on a downloaded file of 1000
\* bytes or less.
C10_NoExtractionOfSmallFile ==
    \A i \in DOMAIN events : events[i].size > 1000

\* C12: once an extraction of en_hin_extract.extract_content,
\* en_extract.process_document, extract.process_document or
\* parsingText2.extract_text_from_pdf_url has returned, by whatever exit path,
\* the local PDF file it downloaded does not exist.
C12_LocalFileRemoved ==
    (path \in LoopPaths \cup {"pt2_url"} /\ pcPipe = "done") => fileSize = -1

----------------------------------------------------------------------------
(* extract_pdf_with_pymupdf (parsingText2.py:18-75).                       *)
(* A page is a record: find_throws tells whether page.find_tables()        *)
(* raises, tables lists the tables it reports (each with the rows          *)
(* table.extract() returns, or throws), prose is what page.get_text        *)
(* returns (or throws). A cell is an Optional[str].                        *)

\* a PDF handed to extract_pdf_with_pymupdf has at most MaxNatPages pages
MaxNatPages == 2

\* the digit of the number n
Digit(n) == DigitChars[n + 1]

\* the cell text that names page p, table k, row r, with blanks around it
CellText(p, k, r) == <<" ", "t", Digit(p), Digit(k), Digit(r), " ">>

\* what table.extract() returns for a table of n rows: two cells a row
RowsOf(p, k, n) ==
    [r \in 1..n |-> <<TextResult(CellText(p, k, r)),
                      IF r = 1 THEN NoneResult ELSE TextResult(<<"c">>)>>]

\* the tables of a page: a table of one row, of two rows, or one whose
\* extract() raises
TableShapes ==
    { <<>>, <<"one">>, <<"throws">>, <<"one", "throws">>, <<"throws", "one">>,
      <<"two", "one">> }

MakeTable(p, k, shape) ==
    IF shape = "throws" THEN [throws |-> TRUE, rows |-> <<>>]
    ELSE [throws |-> FALSE, rows |-> RowsOf(p, k, IF shape = "one" THEN 1 ELSE 2)]

\* the prose of page p: text with whitespace around it, whitespace only, or
\* get_text raising
ProseOf(p) ==
    { [throws |-> FALSE, text |-> <<"NL", "s", Digit(p), " ">>],
      [throws |-> FALSE, text |-> <<" ">>],
      [throws |-> TRUE, text |-> <<>>] }

PagesAt(p) ==
    { [find_throws |-> f,
       tables |-> [k \in DOMAIN sh |-> MakeTable(p, k, sh[k])],
       prose |-> pr] :
          sh \in TableShapes, f \in BOOLEAN, pr \in ProseOf(p) }

\* the PDFs of at most n pages
RECURSIVE PdfsOf(_)
PdfsOf(n) ==
    IF n = 0 THEN {<<>>}
    ELSE LET shorter == PdfsOf(n - 1)
         IN  shorter \cup {Append(d, pg) : d \in {c \in shorter : Len(c) = n - 1},
                                           pg \in PagesAt(n - 1)}

\* lines 29-30: "\t".join((cell if cell else "").strip() for cell in row)
RowText(row) ==
    Join([i \in DOMAIN row |-> Strip(IF row[i].isNone THEN <<>> ELSE row[i].text)],
         <<"TAB">>)

\* lines 26-31: the loop over the tables, left at the first extract() that
\* raises with the rows appended so far
RECURSIVE TableLines(_)
TableLines(tables) ==
    IF tables = <<>> THEN <<>>
    ELSE IF Head(tables).throws THEN <<>>
    ELSE [r \in DOMAIN Head(tables).rows |-> RowText(Head(tables).rows[r])]
         \o TableLines(Tail(tables))

\* extract_tables_from_page (lines 18-34)
extract_tables_from_page(page) ==
    IF page.find_throws THEN <<>> ELSE TableLines(page.tables)

\* extract_text_no_tables (lines 36-44)
extract_text_no_tables(page) ==
    IF page.prose.throws THEN <<>> ELSE page.prose.text

\* a plausible slip: the page's prose appended before its table lines
PageChunksProseFirst(page) ==
    LET table_lines == extract_tables_from_page(page)
        normal_text == extract_text_no_tables(page)
    IN  (IF Strip(normal_text) # <<>> THEN <<Strip(normal_text)>> ELSE <<>>)
        \o table_lines

\* lines 66-72: what one turn of the page loop adds to all_text_chunks
PageChunks(page) ==
    LET table_lines == extract_tables_from_page(page)
        normal_text == extract_text_no_tables(page)
    IN  table_lines
        \o (IF Strip(normal_text) # <<>> THEN <<Strip(normal_text)>> ELSE <<>>)

\* lines 53-60: no such file, or fitz.open raises: return ""
NatOpenFails ==
    /\ pcNat = "start"
    /\ natReturn' = <<>>
    /\ pcNat' = "not_opened"
    /\ UNCHANGED <<pdfPages, pageIndex, allTextChunks>>

\* lines 57-62
NatOpen ==
    /\ pcNat = "start"
    /\ pageIndex' = 0
    /\ allTextChunks' = <<>>
    /\ pcNat' = "loop"
    /\ UNCHANGED <<pdfPages, natReturn>>

\* lines 63-72: one turn of "for page_index in range(doc.page_count)"
NatPage ==
    /\ pcNat = "loop"
    /\ pageIndex < Len(pdfPages)
    /\ allTextChunks' = allTextChunks \o PageChunks(pdfPages[pageIndex + 1])
    /\ pageIndex' = pageIndex + 1
    /\ UNCHANGED <<pcNat, pdfPages, natReturn>>

\* line 64: doc[page_index] raises; nothing catches it
NatPageRaises ==
    /\ pcNat = "loop"
    /\ pageIndex < Len(pdfPages)
    /\ pcNat' = "raised"
    /\ UNCHANGED <<pdfPages, pageIndex, allTextChunks, natReturn>>

\* lines 74-75
NatReturn ==
    /\ pcNat = "loop"
    /\ pageIndex = Len(pdfPages)
    /\ natReturn' = Join(allTextChunks, <<"NL">>)
    /\ pcNat' = "done"
    /\ UNCHANGED <<pdfPages, pageIndex, allTextChunks>>

----------------------------------------------------------------------------
(* SpecNat: one call of extract_pdf_with_pymupdf on a PDF.                 *)

InitNat ==
    /\ pcNat = "start"
    /\ pdfPages \in PdfsOf(MaxNatPages)
    /\ pageIndex = 0
    /\ allTextChunks = <<>>
    /\ natReturn = <<>>
    /\ IdleUrl /\ IdleEx /\ IdleOcr /\ IdlePipe /\ IdleFilter /\ IdleDoc
    /\ IdleMore

\* the parts of the state extract_pdf_with_pymupdf does not touch
natFrame == <<urlVars, exVars, ocrVars, pipeVars, ocrFailed, imageFiles,
              filterVars, docVars, moreVars>>

NextNat ==
    \/ NatOpenFails /\ UNCHANGED natFrame
    \/ NatOpen /\ UNCHANGED natFrame
    \/ NatPage /\ UNCHANGED natFrame
    \/ NatPageRaises /\ UNCHANGED natFrame
    \/ NatReturn /\ UNCHANGED natFrame

SpecNat == InitNat /\ [][NextNat]_vars

----------------------------------------------------------------------------
(* Claims about extract_pdf_with_pymupdf, checked under SpecNat.           *)

\* the number a digit stands for
NumberOf(d) == (CHOOSE i \in DOMAIN DigitChars : DigitChars[i] = d) - 1

\* where a chunk of the output comes from, read off the chunk itself: its
\* page, whether it is a table line (0) or prose (1), its table and its row
KeyOf(chunk) ==
    IF chunk[1] = "t"
    THEN <<NumberOf(chunk[2]), 0, NumberOf(chunk[3]), NumberOf(chunk[4])>>
    ELSE <<NumberOf(chunk[2]), 1, 0, 0>>

\* key a comes before key b
KeyBefore(a, b) ==
    \E i \in 1..4 : a[i] < b[i] /\ \A h \in 1..(i - 1) : a[h] = b[h]

\* nothing of page p raises
PageIsSound(page) ==
    /\ ~page.find_throws
    /\ ~page.prose.throws
    /\ \A k \in DOMAIN page.tables : ~page.tables[k].throws

\* the number of chunks a sound page yields
SoundPageChunks(page) ==
    Cardinality({<<k, r>> \in (DOMAIN page.tables) \X (1..2) :
                    r \in DOMAIN page.tables[k].rows})
    + (IF Strip(page.prose.text) # <<>> THEN 1 ELSE 0)

\* C14: the output of extract_pdf_with_pymupdf is, page by page in ascending
\* page index, the page's table rows in the order the detector reports them
\* and then the page's prose, joined by newlines: no prose of a page precedes
\* a table line of that page, nothing of a later page precedes anything of an
\* earlier one, and a page that raises nothing is there in full.
C14_TablesThenProsePerPage ==
    /\ \A i, j \in DOMAIN allTextChunks :
           i < j => KeyBefore(KeyOf(allTextChunks[i]), KeyOf(allTextChunks[j]))
    /\ \A i \in DOMAIN allTextChunks : KeyOf(allTextChunks[i])[1] < pageIndex
    /\ \A p \in 1..pageIndex :
           PageIsSound(pdfPages[p]) =>
               Cardinality({i \in DOMAIN allTextChunks :
                               KeyOf(allTextChunks[i])[1] = p - 1})
                   = SoundPageChunks(pdfPages[p])
    /\ pcNat = "done" => natReturn = Join(allTextChunks, <<"NL">>)

\* a two-page PDF, each page with tables and prose, was extracted
C14_Witness ==
    /\ pcNat = "done"
    /\ Len(pdfPages) = 2
    /\ \A p \in 1..2 : PageIsSound(pdfPages[p]) /\ SoundPageChunks(pdfPages[p]) = 4
    /\ Len(allTextChunks) = 8

\* a table of page p raises in find_tables or in extract
TablesThrow(page) ==
    \/ page.find_throws /\ page.tables # <<>>
    \/ \E k \in DOMAIN page.tables : page.tables[k].throws

\* C15: when table detection or table extraction throws on a page, the page
\* contributes zero table lines, its prose is still in the output, and the
\* call returns.
C15_ThrowingTablesGiveNoLines ==
    \A p \in 1..pageIndex :
        TablesThrow(pdfPages[p]) =>
            /\ ~\E i \in DOMAIN allTextChunks :
                   KeyOf(allTextChunks[i])[1] = p - 1 /\ KeyOf(allTextChunks[i])[2] = 0
            /\ (~pdfPages[p].prose.throws /\ Strip(pdfPages[p].prose.text) # <<>>)
                   => \E i \in DOMAIN allTextChunks :
                          KeyOf(allTextChunks[i]) = <<p - 1, 1, 0, 0>>

----------------------------------------------------------------------------
(* SpecFilter: clean_and_keep_only_english applied to a text, then to its  *)
(* own result.                                                             *)

\* a text given to the filter is the concatenation of at most
\* MaxFilterPieces pieces of FilterPieces
MaxFilterPieces == 2

\* a Hindi sentence with a number in it
HinDigits == Rep("KA", 30) \o <<" ", "1", "2", "3", ".">>

FilterPieces ==
    { EngLong \o <<".">>, EngMid, HinLong, HinDigits, Mixed, Blank, HeaderLine }

FilterTexts == UpToPieces(FilterPieces, MaxFilterPieces)

InitFilter ==
    /\ pcFilter = "start"
    /\ filterIn \in FilterTexts
    /\ filtered1 = <<>>
    /\ filtered2 = <<>>
    /\ IdleUrl /\ IdleEx /\ IdleOcr /\ IdlePipe /\ IdleNat /\ IdleDoc
    /\ IdleMore

\* cleaned = clean_and_keep_only_english(text)
FilterOnce ==
    /\ pcFilter = "start"
    /\ filtered1' = clean_and_keep_only_english(filterIn)
    /\ pcFilter' = "once"
    /\ UNCHANGED <<filterIn, filtered2>>

\* clean_and_keep_only_english(cleaned)
FilterTwice ==
    /\ pcFilter = "once"
    /\ filtered2' = clean_and_keep_only_english(filtered1)
    /\ pcFilter' = "twice"
    /\ UNCHANGED <<filterIn, filtered1>>

\* the parts of the state the filter does not touch
filterFrame == <<urlVars, exVars, ocrVars, pipeVars, ocrFailed, imageFiles,
                 natVars, docVars, moreVars>>

NextFilter ==
    \/ FilterOnce /\ UNCHANGED filterFrame
    \/ FilterTwice /\ UNCHANGED filterFrame

SpecFilter == InitFilter /\ [][NextFilter]_vars

----------------------------------------------------------------------------
(* Claims about the language filter, checked under SpecFilter.             *)

\* C16: the language filter is idempotent: filtering a filtered text yields
\* the same text.
C16_FilterIdempotent ==
    pcFilter = "twice" => filtered2 = filtered1

\* the Devanagari characters of a text
DevanagariOf(text) == SelectSeq(text, IsDevanagari)

\* the sentences of the filter's input it keeps because they are Hindi
HindiUnits ==
    LET sentences == split_into_sentences(remove_unwanted_headers(filterIn))
        IsHindi(raw) == Strip(raw) # <<>> /\ detect(Strip(raw)) = "hi"
    IN  SelectSeq(sentences, IsHindi)

\* C17: every unit the filter keeps because it is classified as Hindi retains
\* its Devanagari characters: the cleaned unit holds all of them, and so does
\* the text the filter returns when it returns one.
C17_HindiUnitsKeepDevanagari ==
    pcFilter \in {"once", "twice"} =>
        /\ \A i \in DOMAIN HindiUnits :
               /\ CleanSentence(HindiUnits[i]) # <<>>
               /\ DevanagariOf(CleanSentence(HindiUnits[i])[1])
                      = DevanagariOf(HindiUnits[i])
        /\ filtered1 # <<>> =>
               Len(DevanagariOf(filtered1))
                   = Len(DevanagariOf(Join(HindiUnits, <<".">>)))

----------------------------------------------------------------------------
(* The Mongo pipelines: main and process_document of en_extract.py,        *)
(* en_hin_extract.py and extract.py.                                       *)
(* A document is a record: eng_url and hin_url tell whether its URL fields *)
(* hold a URL, eng and hin are its content fields ("" when missing).       *)
(* en_extract.py has one URL field and one content field: eng_url and eng. *)
(* batch is what collection.find(query) returns, stored the content fields *)
(* in the collection, doc the dict process_document works on, acqLog the   *)
(* extractions run for the current document, handled what main did with    *)
(* each document it took from the cursor.                                  *)

\* a batch has at most MaxDocs documents
MaxDocs == 2

Pipelines == {"en_extract", "en_hin_extract", "extract"}

\* content a document already has
OldContent == <<"o", "l", "d">>

\* the URLs of a document's English and Hindi PDF
EngUrl == <<"x">> \o DoWeb \o <<"y">>
HinUrl == <<"x", "d", "o", "?", "y">>
UrlOf(lang) == IF lang = "eng" THEN EngUrl ELSE HinUrl

\* the documents a query can return
Documents ==
    [eng_url : BOOLEAN, hin_url : BOOLEAN,
     eng : {<<>>, OldContent}, hin : {<<>>, OldContent}]

\* the queries of main: en_extract.py:174-176, en_hin_extract.py:212-217,
\* extract.py:250-281
QueryMatches(pl, d) ==
    IF pl = "en_extract" THEN d.eng_url /\ ~d.hin_url /\ d.hin = <<>>
    ELSE IF pl = "en_hin_extract" THEN d.eng_url /\ d.hin_url
    ELSE /\ d.eng_url \/ d.hin_url
         /\ \/ d.eng_url /\ d.eng = <<>>
            \/ d.hin_url /\ d.hin = <<>>

\* the sequences of at most n documents matching the query of pl
RECURSIVE BatchesOf(_, _)
BatchesOf(pl, n) ==
    IF n = 0 THEN {<<>>}
    ELSE LET shorter == BatchesOf(pl, n - 1)
         IN  shorter \cup {Append(b, d) : b \in {c \in shorter : Len(c) = n - 1},
                                          d \in {e \in Documents : QueryMatches(pl, e)}}

\* the content fields of a document
FieldsOf(d) == [eng |-> d.eng, hin |-> d.hin]

\* main: "if eng_content_exists and hin_content_exists: continue"
\* (en_hin_extract.py:231-237), "if has_eng and has_hin: continue"
\* (extract.py:292-297); en_extract.py has no such test
SkipDocument(pl, d) ==
    pl # "en_extract" /\ d.eng # <<>> /\ d.hin # <<>>

\* process_document: whether the English extraction is run. url: the
\* document's URL fields; d: the dict's content fields.
\* en_extract.py:61 "if not url: return"; en_hin_extract.py:122 and 138;
\* extract.py:141
EngNeeded(pl, url, d) ==
    IF pl = "en_extract" THEN url.eng_url
    ELSE IF pl = "en_hin_extract" THEN url.eng_url /\ url.hin_url /\ d.eng = <<>>
    ELSE d.eng = <<>> /\ url.eng_url

\* a plausible slip: the Hindi extraction run only when English content is there
HinNeededAfterEng(pl, url, d) ==
    IF pl = "en_extract" THEN FALSE
    ELSE IF pl = "en_hin_extract"
         THEN url.eng_url /\ url.hin_url /\ d.hin = <<>> /\ d.eng # <<>>
    ELSE d.hin = <<>> /\ url.hin_url /\ d.eng # <<>>

\* a plausible slip: the Hindi extraction run whatever the document holds
HinAlwaysNeeded(pl, url, d) ==
    IF pl = "en_extract" THEN FALSE
    ELSE IF pl = "en_hin_extract" THEN url.eng_url /\ url.hin_url
    ELSE url.hin_url

\* process_document: whether the Hindi extraction is run
\* (en_hin_extract.py:122 and 149; extract.py:179)
HinNeeded(pl, url, d) ==
    IF pl = "en_extract" THEN FALSE
    ELSE IF pl = "en_hin_extract" THEN url.eng_url /\ url.hin_url /\ d.hin = <<>>
    ELSE d.hin = <<>> /\ url.hin_url

\* the acquisition path process_document takes for a language
AcqPath(pl, lang) ==
    IF pl = "en_extract" THEN "en_extract"
    ELSE IF pl = "en_hin_extract"
         THEN (IF lang = "eng" THEN "en_hin_eng" ELSE "en_hin_hin")
    ELSE (IF lang = "eng" THEN "extract_eng" ELSE "extract_hin")

\* process_document: the dict after the extraction of lang returned text.
\* "if content: doc[CONTENT_FIELD] = content" (en_extract.py:117-118,
\* en_hin_extract.py:141-142 and 152-153); extract.py assigns the result to
\* english_content / hindi_content and stores them at lines 217-218
SetField(pl, d, lang, text) ==
    IF pl = "extract" THEN [d EXCEPT ![lang] = text]
    ELSE IF text # <<>> THEN [d EXCEPT ![lang] = text]
    ELSE d

\* main: the keys of update_fields. orig: the fields the cursor returned;
\* d: the fields of updated_doc. en_extract.py:190-196,
\* en_hin_extract.py:243-251, extract.py:303-310
UpdateFields(pl, orig, d) ==
    IF pl = "en_extract" THEN (IF d.eng # <<>> THEN {"eng"} ELSE {})
    ELSE IF pl = "en_hin_extract"
         THEN (IF d.eng # <<>> /\ orig.eng = <<>> THEN {"eng"} ELSE {})
              \cup (IF d.hin # <<>> /\ orig.hin = <<>> THEN {"hin"} ELSE {})
    ELSE (IF d.eng # <<>> THEN {"eng"} ELSE {})
         \cup (IF d.hin # <<>> THEN {"hin"} ELSE {})

\* a plausible slip: the stored fields replaced by update_fields, not merged
UpdateOneReplaces(old, fields, d) ==
    [eng |-> IF "eng" \in fields THEN d.eng ELSE <<>>,
     hin |-> IF "hin" \in fields THEN d.hin ELSE <<>>]

\* collection.update_one({"_id": ...}, {"$set": update_fields})
UpdateOne(old, fields, d) ==
    [eng |-> IF "eng" \in fields THEN d.eng ELSE old.eng,
     hin |-> IF "hin" \in fields THEN d.hin ELSE old.hin]

\* a plausible slip: the loop left when a document yielded no content
AfterDocumentStopsOnFailure(fields) == IF fields = {} THEN "final" ELSE "loop"

\* main: where control goes after a document was handled: back to the for
\* loop, whatever was extracted (en_extract.py:183-202,
\* en_hin_extract.py:227-265, extract.py:288-323)
AfterDocument(fields) == "loop"

\* the largest size the local file had after an attempt of the retry loop
MaxSize(log) ==
    IF log = <<>> THEN -1
    ELSE CHOOSE m \in {log[i].size : i \in DOMAIN log} :
             \A i \in DOMAIN log : log[i].size <= m

\* the state of an acquisition about to start on path p for the URL u
PipeBegin(p, u) ==
    /\ path' = p
    /\ srcUrl' = u
    /\ pcPipe' = "retry"
    /\ attempt' = 0
    /\ fileSize' = -1
    /\ requests' = <<>>
    /\ attemptLog' = <<>>
    /\ events' = <<>>
    /\ content' = <<>>
    /\ pcEx' = "idle"
    /\ fileIsFile' = FALSE
    /\ nativeText' = <<>>
    /\ ocrText' = <<>>
    /\ exLog' = <<>>
    /\ exResult' = NoneResult

\* the acquisition has returned: its locals are gone
PipeEnd ==
    /\ path' = "none"
    /\ srcUrl' = <<>>
    /\ pcPipe' = "idle"
    /\ attempt' = 0
    /\ fileSize' = -1
    /\ requests' = <<>>
    /\ attemptLog' = <<>>
    /\ events' = <<>>
    /\ content' = <<>>
    /\ pcEx' = "idle"
    /\ fileIsFile' = FALSE
    /\ nativeText' = <<>>
    /\ ocrText' = <<>>
    /\ exLog' = <<>>
    /\ exResult' = NoneResult

\* main: os.makedirs, connect_to_mongodb, count_documents, find
\* (en_extract.py:165-183, en_hin_extract.py:203-227, extract.py:242-288)
MainConnect ==
    /\ pcDoc = "start"
    /\ pcDoc' = "loop"
    /\ docIdx' = 1
    /\ UNCHANGED <<pipeline, batch, stored, doc, acqLog, handled, finalCleanup,
                   dbFailed, pipeVars, exVars>>

\* connect_to_mongodb (or the query) raises: main's "except Exception"
MainConnectFails ==
    /\ pcDoc = "start"
    /\ pcDoc' = "final"
    /\ dbFailed' = TRUE
    /\ UNCHANGED <<pipeline, batch, stored, docIdx, doc, acqLog, handled,
                   finalCleanup, pipeVars, exVars>>

\* the for loop takes a document that has both contents: continue
MainSkip ==
    /\ pcDoc = "loop"
    /\ docIdx <= Len(batch)
    /\ SkipDocument(pipeline, FieldsOf(batch[docIdx]))
    /\ handled' = Append(handled, [idx |-> docIdx, kind |-> "skipped", fields |-> {}])
    /\ docIdx' = docIdx + 1
    /\ UNCHANGED <<pipeline, batch, stored, pcDoc, doc, acqLog, finalCleanup,
                   dbFailed, pipeVars, exVars>>

\* the for loop takes a document and calls process_document(doc)
DocStart ==
    /\ pcDoc = "loop"
    /\ docIdx <= Len(batch)
    /\ ~SkipDocument(pipeline, FieldsOf(batch[docIdx]))
    /\ doc' = FieldsOf(batch[docIdx])
    /\ acqLog' = <<>>
    /\ pcDoc' = "eng"
    /\ UNCHANGED <<pipeline, batch, stored, docIdx, handled, finalCleanup,
                   dbFailed, pipeVars, exVars>>

\* process_document: the extraction of lang is started, or passed over
DocBranch(lang, pcAcq, pcNextBranch, needed) ==
    /\ IF needed
       THEN /\ PipeBegin(AcqPath(pipeline, lang), UrlOf(lang))
            /\ pcDoc' = pcAcq
       ELSE /\ pcDoc' = pcNextBranch
            /\ UNCHANGED <<pipeVars, exVars>>
    /\ UNCHANGED <<pipeline, batch, stored, docIdx, doc, acqLog, handled,
                   finalCleanup, dbFailed>>

\* process_document: the extraction of lang has returned
DocBranchDone(lang, pcNextBranch) ==
    /\ pcPipe = "done"
    /\ doc' = SetField(pipeline, doc, lang, content)
    /\ acqLog' = Append(acqLog, [lang |-> lang, best |-> MaxSize(attemptLog),
                                 left |-> fileSize, text |-> content])
    /\ PipeEnd
    /\ pcDoc' = pcNextBranch
    /\ UNCHANGED <<pipeline, batch, stored, docIdx, handled, finalCleanup, dbFailed>>

DocEng ==
    /\ pcDoc = "eng"
    /\ DocBranch("eng", "acq_eng", "hin", EngNeeded(pipeline, batch[docIdx], doc))

DocEngDone ==
    /\ pcDoc = "acq_eng"
    /\ DocBranchDone("eng", "hin")

DocHin ==
    /\ pcDoc = "hin"
    /\ DocBranch("hin", "acq_hin", "update", HinNeeded(pipeline, batch[docIdx], doc))

DocHinDone ==
    /\ pcDoc = "acq_hin"
    /\ DocBranchDone("hin", "update")

\* main: process_document has returned; update_fields, update_one when there
\* is a field to set, clean_temp_files, the next turn of the loop
MainUpdate ==
    /\ pcDoc = "update"
    /\ LET fields == UpdateFields(pipeline, FieldsOf(batch[docIdx]), doc)
       IN  /\ stored' = [stored EXCEPT ![docIdx] = UpdateOne(@, fields, doc)]
           /\ handled' = Append(handled,
                  [idx |-> docIdx,
                   kind |-> IF fields = {} THEN "no_content" ELSE "updated",
                   fields |-> fields])
           /\ pcDoc' = AfterDocument(fields)
    /\ docIdx' = docIdx + 1
    /\ UNCHANGED <<pipeline, batch, doc, acqLog, finalCleanup, dbFailed,
                   pipeVars, exVars>>

\* main: collection.update_one raises: the for loop is left through main's
\* "except Exception"
MainUpdateRaises ==
    /\ pcDoc = "update"
    /\ UpdateFields(pipeline, FieldsOf(batch[docIdx]), doc) # {}
    /\ dbFailed' = TRUE
    /\ pcDoc' = "final"
    /\ UNCHANGED <<pipeline, batch, stored, docIdx, doc, acqLog, handled,
                   finalCleanup, pipeVars, exVars>>

\* main: the cursor is exhausted
MainLoopEnds ==
    /\ pcDoc = "loop"
    /\ docIdx > Len(batch)
    /\ pcDoc' = "final"
    /\ UNCHANGED <<pipeline, batch, stored, docIdx, doc, acqLog, handled,
                   finalCleanup, dbFailed, pipeVars, exVars>>

\* main: "finally: clean_temp_files()"
MainFinalCleanup ==
    /\ pcDoc = "final"
    /\ finalCleanup' = TRUE
    /\ pcDoc' = "finished"
    /\ UNCHANGED <<pipeline, batch, stored, docIdx, doc, acqLog, handled,
                   dbFailed, pipeVars, exVars>>

----------------------------------------------------------------------------
(* SpecDoc: one run of main of one of the Mongo pipelines.                 *)

InitDoc ==
    /\ pipeline \in Pipelines
    /\ batch \in BatchesOf(pipeline, MaxDocs)
    /\ stored = [i \in DOMAIN batch |-> FieldsOf(batch[i])]
    /\ docIdx = 0
    /\ pcDoc = "start"
    /\ doc = <<>>
    /\ acqLog = <<>>
    /\ handled = <<>>
    /\ finalCleanup = FALSE
    /\ dbFailed = FALSE
    /\ IdleUrl /\ IdleEx /\ IdleOcr /\ IdlePipe /\ IdleNat /\ IdleFilter
    /\ IdleMore

\* the parts of the state no step of a Mongo pipeline touches
docFrame == <<urlVars, ocrVars, ocrFailed, imageFiles, natVars, filterVars,
              moreVars>>
\* the parts of the state no step of an acquisition touches
acqFrame == <<urlVars, ocrVars, ocrFailed, imageFiles, natVars, filterVars,
              docVars, moreVars>>

\* the steps of main, of process_document and of the download loops
MainSteps ==
    \/ MainConnect /\ UNCHANGED docFrame
    \/ MainConnectFails /\ UNCHANGED docFrame
    \/ MainSkip /\ UNCHANGED docFrame
    \/ DocStart /\ UNCHANGED docFrame
    \/ DocEng /\ UNCHANGED docFrame
    \/ DocEngDone /\ UNCHANGED docFrame
    \/ DocHin /\ UNCHANGED docFrame
    \/ DocHinDone /\ UNCHANGED docFrame
    \/ MainUpdate /\ UNCHANGED docFrame
    \/ MainUpdateRaises /\ UNCHANGED docFrame
    \/ MainLoopEnds /\ UNCHANGED docFrame
    \/ MainFinalCleanup /\ UNCHANGED docFrame
    \/ PipeAttemptRaises /\ UNCHANGED acqFrame
    \/ PipeAttempt /\ UNCHANGED acqFrame
    \/ PipeValidate /\ UNCHANGED acqFrame
    \/ PipeOcr /\ UNCHANGED acqFrame
    \/ PipeExCheckFile /\ UNCHANGED acqFrame
    \/ PipeExtractEnds /\ UNCHANGED acqFrame
    \/ PipeCleanup /\ UNCHANGED acqFrame

\* the calls of extract_text_from_pdf into PyMuPDF and Tesseract
ExtractionSteps ==
    \/ PipeExNative /\ UNCHANGED acqFrame
    \/ PipeExNativeRaises /\ UNCHANGED acqFrame
    \/ PipeExOcr /\ UNCHANGED acqFrame

NextDoc == MainSteps \/ ExtractionSteps

SpecDoc == InitDoc /\ [][NextDoc]_vars

\* a strategy of extract_text_from_pdf that was started returns or raises:
\* its position moves on
ExtractionReturns ==
    /\ pcPipe = "extract"
    /\ pcEx \in {"native", "ocr"}
    /\ pcEx' \in {"ocr", "done", "raised"} \ {pcEx}

\* main is one thread that runs on until it returns, and the library calls
\* it waits for come back
SpecDocLive == SpecDoc /\ WF_vars(MainSteps) /\ WF_pcEx(ExtractionReturns)

----------------------------------------------------------------------------
(* Claims about the Mongo pipelines, checked under SpecDoc.                *)

\* the last element of a non-empty sequence
Last(seq) == seq[Len(seq)]

\* the document the state's doc and acqLog belong to was handled to the end
\* by main, and it is the last one main handled
DocumentClosed ==
    /\ pcDoc \in {"loop", "final", "finished"}
    /\ ~dbFailed
    /\ handled # <<>>
    /\ Last(handled).kind # "skipped"

\* C11: when every download attempt for a URL fails (the download raises, or
\* leaves a file of 1000 bytes or less), the extraction returns normally with
\* empty content: no extractor is started, the document's content field of
\* that language keeps the value it had, and the stored field is not updated.
C11_FailedDownloadGivesEmpty ==
    /\ (pcDoc \in {"acq_eng", "acq_hin"} /\ pcPipe = "done"
            /\ \A i \in DOMAIN attemptLog : attemptLog[i].size <= 1000)
           => content = <<>> /\ events = <<>> /\ Len(attemptLog) = 3
    /\ pcDoc \in {"hin", "acq_hin", "update"} =>
           \A i \in DOMAIN acqLog :
               acqLog[i].best <= 1000
                   => /\ acqLog[i].text = <<>>
                      /\ doc[acqLog[i].lang] = batch[docIdx][acqLog[i].lang]
    /\ DocumentClosed =>
           \A i \in DOMAIN acqLog :
               acqLog[i].best <= 1000
                   => stored[Last(handled).idx][acqLog[i].lang]
                          = batch[Last(handled).idx][acqLog[i].lang]

\* a document whose downloads all came back too small was handled: nothing
\* was extracted for it and main went on
C11_Witness ==
    /\ DocumentClosed
    /\ Last(handled).kind = "no_content"
    /\ \E i \in DOMAIN acqLog : acqLog[i].best = 1000 /\ acqLog[i].text = <<>>
    /\ stored[Last(handled).idx] = FieldsOf(batch[Last(handled).idx])

\* the entries of acqLog for one language
AcqOf(lang) ==
    LET IsLang(e) == e.lang = lang
    IN  SelectSeq(acqLog, IsLang)

\* process_document has run both branches for a document of a two-language
\* pipeline that has both URLs
BothBranchesDone ==
    /\ pipeline \in {"en_hin_extract", "extract"}
    /\ pcDoc = "update"
    /\ batch[docIdx].eng_url
    /\ batch[docIdx].hin_url

\* C18: for a document with both URLs, what happens for one language does not
\* depend on the other: each language whose content is missing is extracted
\* exactly once, whatever the other extraction gave (failure, exception, empty
\* text), its field is set from its own result, and a non-empty result is
\* written to its own stored field.
C18_LanguagesIndependent ==
    /\ BothBranchesDone =>
           \A lang \in {"eng", "hin"} :
               IF batch[docIdx][lang] = <<>>
               THEN /\ Len(AcqOf(lang)) = 1
                    /\ doc[lang] = AcqOf(lang)[1].text
               ELSE /\ AcqOf(lang) = <<>>
                    /\ doc[lang] = batch[docIdx][lang]
    /\ (DocumentClosed /\ pipeline \in {"en_hin_extract", "extract"}) =>
           \A i \in DOMAIN acqLog :
               acqLog[i].text # <<>>
                   => stored[Last(handled).idx][acqLog[i].lang] = acqLog[i].text

\* the English download of a document failed and its Hindi text was
\* extracted and stored all the same
C18_Witness ==
    /\ DocumentClosed
    /\ pipeline \in {"en_hin_extract", "extract"}
    /\ Len(acqLog) = 2
    /\ acqLog[1].lang = "eng" /\ acqLog[1].text = <<>> /\ acqLog[1].best <= 1000
    /\ acqLog[2].lang = "hin" /\ acqLog[2].text # <<>>
    /\ stored[Last(handled).idx] = [eng |-> <<>>, hin |-> acqLog[2].text]

\* document i has Hindi content and an English URL but no English content
HindiOnlyDone(i) ==
    /\ pipeline \in {"en_hin_extract", "extract"}
    /\ batch[i].eng_url
    /\ batch[i].eng = <<>>
    /\ batch[i].hin # <<>>

\* C19: for a document whose Hindi content is there and whose English content
\* is missing, a pass runs no download and no extraction for Hindi, runs the
\* English extraction, and leaves the stored Hindi field as it was.
C19_ExistingHindiUntouched ==
    \A i \in DOMAIN batch :
        HindiOnlyDone(i) =>
            /\ stored[i].hin = batch[i].hin
            /\ \A h \in DOMAIN handled : handled[h].idx = i => handled[h].kind # "skipped"
            /\ (docIdx = i /\ pcDoc \in {"eng", "acq_eng", "hin", "acq_hin", "update"}) =>
                   /\ pcDoc # "acq_hin"
                   /\ AcqOf("hin") = <<>>
                   /\ path \notin {"en_hin_hin", "extract_hin"}
                   /\ pcDoc \in {"hin", "update"} => Len(AcqOf("eng")) = 1
            /\ (DocumentClosed /\ Last(handled).idx = i) =>
                   AcqOf("hin") = <<>> /\ Len(AcqOf("eng")) = 1

\* such a document was handled: its English text was extracted and stored, its
\* Hindi content is what it was
C19_Witness ==
    /\ DocumentClosed
    /\ HindiOnlyDone(Last(handled).idx)
    /\ Len(acqLog) = 1
    /\ acqLog[1].lang = "eng"
    /\ acqLog[1].text # <<>>
    /\ stored[Last(handled).idx] = [eng |-> acqLog[1].text, hin |-> OldContent]

\* C20: a document that fails (failed download, unreadable PDF, page fault,
\* nothing left by the filter) does not end the batch: main handles every
\* document of the cursor, in order, and a run always comes to its end, the
\* final cleanup done. Only a database error leaves the loop early.
C20_BatchRunsToTheEnd ==
    <>[](/\ pcDoc = "finished"
         /\ finalCleanup
         /\ ~dbFailed => /\ Len(handled) = Len(batch)
                         /\ \A i \in DOMAIN handled : handled[i].idx = i)

\* the first of two documents yielded nothing, the second was extracted and
\* updated, and main finished
C20_Witness ==
    /\ pcDoc = "finished"
    /\ finalCleanup
    /\ ~dbFailed
    /\ Len(handled) = 2
    /\ handled[1].kind = "no_content"
    /\ handled[2].kind = "updated"

\* main has handled document i without a database error, and acqLog holds
\* the extractions that were run for it
JustHandled(i) ==
    /\ DocumentClosed
    /\ Last(handled).idx = i

\* C21: a stored content field is never emptied or removed: a stored field
\* either has the value the cursor returned or a non-empty text, and when
\* every extraction run for a language of a document gave no content the
\* stored field of that language keeps its value, in en_extract too, which
\* extracts again for documents that have content.
C21_StoredContentKept ==
    \A i \in DOMAIN batch : \A lang \in {"eng", "hin"} :
        /\ stored[i][lang] = batch[i][lang] \/ stored[i][lang] # <<>>
        /\ (/\ JustHandled(i)
            /\ \A k \in DOMAIN AcqOf(lang) : AcqOf(lang)[k].text = <<>>)
               => stored[i][lang] = batch[i][lang]

\* en_extract extracted again for a document that had content, got
\* nothing, and the stored content is what it was
C21_Witness ==
    /\ pipeline = "en_extract"
    /\ DocumentClosed
    /\ batch[Last(handled).idx].eng = OldContent
    /\ Len(acqLog) = 1
    /\ acqLog[1].text = <<>>
    /\ stored[Last(handled).idx].eng = OldContent

----------------------------------------------------------------------------
(* SpecSplit: one run of train_devSplit.py.                                *)
(* jsonl is the input file, one entry a line; data the list the script     *)
(* builds, shuffles and cuts; files the four output files as written.      *)

\* an input file has at most MaxRecords lines
MaxRecords == 4

\* dev_ratio = 0.1, in percent
DevRatioPercent == 10

\* the line of record k as it stands in the file: a JSON object whose strings
\* are escaped ("\\n" is the escape of a line break), or a blank line
JsonLine(k, kind) ==
    IF kind = "blank" THEN [blank |-> TRUE, english |-> <<>>, hindi |-> <<>>]
    ELSE IF kind = "eng_nl"
         THEN [blank |-> FALSE,
               english |-> <<"e", Digit(k), "\\n", "f", Digit(k)>>,
               hindi |-> <<"KA", Digit(k)>>]
    ELSE [blank |-> FALSE, english |-> <<"e", Digit(k)>>, hindi |-> <<"KA", Digit(k)>>]

JsonFiles ==
    UNION {{[k \in 1..n |-> JsonLine(k, kinds[k])] :
                kinds \in [1..n -> {"plain", "eng_nl", "blank"}]} : n \in 0..MaxRecords}

\* json.loads of a string: the escape of a line break becomes a line break
Unescape(str) == [i \in DOMAIN str |-> IF str[i] = "\\n" THEN "NL" ELSE str[i]]

\* json.loads(line.strip())
JsonLoads(line) == [english |-> Unescape(line.english), hindi |-> Unescape(line.hindi)]

InitSplit ==
    /\ pcSplit = "start"
    /\ jsonl \in JsonFiles
    /\ data = <<>>
    /\ train_data = <<>>
    /\ dev_data = <<>>
    /\ files = <<>>
    /\ IdleUrl /\ IdleEx /\ IdleOcr /\ IdlePipe /\ IdleNat /\ IdleFilter /\ IdleDoc
    /\ IdleProc /\ IdlePairs /\ IdleTemp

\* lines 22-26: the records of the lines that are not blank, in file order
SplitRead ==
    /\ pcSplit = "start"
    /\ LET NotBlank(line) == ~line.blank
           kept == SelectSeq(jsonl, NotBlank)
       IN  data' = [i \in DOMAIN kept |-> JsonLoads(kept[i])]
    /\ pcSplit' = "read"
    /\ UNCHANGED <<jsonl, train_data, dev_data, files>>

\* line 29: random.shuffle(data) leaves any order of the same records
SplitShuffle ==
    /\ pcSplit = "read"
    /\ \E p \in Permutations(DOMAIN data) :
           data' = [i \in DOMAIN data |-> data[p[i]]]
    /\ pcSplit' = "shuffled"
    /\ UNCHANGED <<jsonl, train_data, dev_data, files>>

\* int(len(data) * (1 - dev_ratio)): the double nearest 0.9 is above 0.9, so
\* the product is never below the exact one and int() gives its floor
split_idx(n) == (n * (100 - DevRatioPercent)) \div 100

\* lines 32-34
SplitCut ==
    /\ pcSplit = "shuffled"
    /\ train_data' = SubSeq(data, 1, split_idx(Len(data)))
    /\ dev_data' = SubSeq(data, split_idx(Len(data)) + 1, Len(data))
    /\ pcSplit' = "cut"
    /\ UNCHANGED <<jsonl, data, files>>

\* what the loop "f.write(item[key] + '\n')" leaves in a file
RECURSIVE Written(_, _)
Written(items, key) ==
    IF items = <<>> THEN <<>>
    ELSE items[1][key] \o <<"NL">> \o Written(Tail(items), key)

\* lines 37-41
SplitWriteTrain ==
    /\ pcSplit = "cut"
    /\ files' = [train_eng |-> Written(train_data, "english"),
                 train_hin |-> Written(train_data, "hindi")]
    /\ pcSplit' = "train_written"
    /\ UNCHANGED <<jsonl, data, train_data, dev_data>>

\* lines 44-48
SplitWriteDev ==
    /\ pcSplit = "train_written"
    /\ files' = [train_eng |-> files.train_eng,
                 train_hin |-> files.train_hin,
                 dev_eng |-> Written(dev_data, "english"),
                 dev_hin |-> Written(dev_data, "hindi")]
    /\ pcSplit' = "done"
    /\ UNCHANGED <<jsonl, data, train_data, dev_data>>

splitFrame == <<urlVars, exVars, ocrVars, pipeVars, ocrFailed, imageFiles,
                natVars, filterVars, docVars, procVars, pairVars, tempVars>>

NextSplit ==
    \/ SplitRead /\ UNCHANGED splitFrame
    \/ SplitShuffle /\ UNCHANGED splitFrame
    \/ SplitCut /\ UNCHANGED splitFrame
    \/ SplitWriteTrain /\ UNCHANGED splitFrame
    \/ SplitWriteDev /\ UNCHANGED splitFrame

SpecSplit == InitSplit /\ [][NextSplit]_vars

----------------------------------------------------------------------------
(* Claims about the train/dev split, checked under SpecSplit.              *)

\* the lines of a text file: the pieces its line breaks end
LinesOf(file) ==
    LET pieces == Split(file, <<"NL">>)
    IN  SubSeq(pieces, 1, Len(pieces) - 1)

\* the records of the input file
InputRecords ==
    LET NotBlank(line) == ~line.blank
        kept == SelectSeq(jsonl, NotBlank)
    IN  [i \in DOMAIN kept |-> JsonLoads(kept[i])]

\* how often record r occurs in the list items
Occurrences(items, r) == Cardinality({i \in DOMAIN items : items[i] = r})

\* the sizes of the two sets for N input records
SplitSizes ==
    LET n == Len(InputRecords)
    IN  /\ Len(train_data) + Len(dev_data) = n
        /\ Len(dev_data) = n - split_idx(n)
        /\ 100 * Len(dev_data) - n * DevRatioPercent \in 0..100

\* every input record is in exactly one of the two sets, once
SplitIsPartition ==
    \A i \in DOMAIN InputRecords :
        Occurrences(train_data \o dev_data, InputRecords[i]) = 1

\* the lines a string of a record takes in a file
LinesIn(str) == Range(Split(str, <<"NL">>))

\* the two files of a set have the same number of lines, and line i of the
\* source file and line i of the target file come from the same item
PairsAligned(items, eng_file, hin_file) ==
    /\ Len(LinesOf(eng_file)) = Len(LinesOf(hin_file))
    /\ \A i \in DOMAIN LinesOf(eng_file) :
           \E k \in DOMAIN items :
               /\ LinesOf(eng_file)[i] \in LinesIn(items[k].english)
               /\ LinesOf(hin_file)[i] \in LinesIn(items[k].hindi)

\* C22: the train/dev split is a partition of the input records that keeps
\* the pairs aligned: len(train) + len(dev) = N, len(dev) = N - floor(N * (1 - r)),
\* within 1 of N * r, every record in exactly one set, and line i of the
\* source file and line i of the target file of a set come from the same
\* record.
C22_SplitKeepsPairsAligned ==
    pcSplit = "done" =>
        /\ SplitSizes
        /\ SplitIsPartition
        /\ PairsAligned(train_data, files.train_eng, files.train_hin)
        /\ PairsAligned(dev_data, files.dev_eng, files.dev_hin)

----------------------------------------------------------------------------
(* A further claim about fix_url, checked under SpecUrl.                   *)

\* C23: for a URL that contains doWeb, fix_url returns the text before the
\* first doWeb, then do?Web, then all the text after that occurrence: apart
\* from the inserted '?' no character is dropped or changed, also when doWeb
\* occurs more than once.
C23_FixUrlKeepsEveryCharacter ==
    (pcUrl \in {"once", "twice"} /\ Contains(url0, DoWeb)) =>
        LET first == FindFrom(url0, DoWeb, 1)
        IN  url1 = SubSeq(url0, 1, first - 1) \o DoQWeb
                   \o SubSeq(url0, first + Len(DoWeb), Len(url0))

----------------------------------------------------------------------------
(* A further claim about the OCR calls of pdf_to_text, under SpecOcr.      *)

\* C24: for every page process_image has worked on, the image file
\* page_<pid>_<index>.png it wrote is gone when process_image returns,
\* whether the OCR call succeeded or raised.
C24_PageImageRemoved ==
    extractor = "pdf_to_text" =>
        \A p \in DOMAIN ocrOut : p \notin imageFiles

----------------------------------------------------------------------------
(* Further claims about extract_pdf_with_ocr, checked under SpecOcr.       *)

\* fitz.open gave the page count and the chunk loop was entered
ChunkLoopEntered == extractor = "extract_pdf_with_ocr" /\ chunkStart >= 1

\* ceil(n / c)
CeilDiv(n, c) == (n + c - 1) \div c

\* C25: for a page count N >= 1 and a chunk size c >= 1 extract_pdf_with_ocr
\* rasterizes exactly ceil(N / c) chunks; the chunks are contiguous page
\* ranges of at most c pages, issued in ascending order, pairwise disjoint,
\* and together they cover the pages 1..N exactly once.
C25_ChunksPartitionPages ==
    (ChunkLoopEntered /\ totalPages >= 1) =>
        /\ \A k \in DOMAIN rasterLog :
               /\ rasterLog[k][1] <= rasterLog[k][2]
               /\ rasterLog[k][2] - rasterLog[k][1] + 1 <= chunkSize
               /\ rasterLog[k][1] = IF k = 1 THEN 1 ELSE rasterLog[k - 1][2] + 1
               /\ rasterLog[k][2] <= totalPages
        /\ pcOcr = "done" =>
               /\ Len(rasterLog) = CeilDiv(totalPages, chunkSize)
               /\ rasterLog[Len(rasterLog)][2] = totalPages
               /\ \A p \in 1..totalPages :
                      Cardinality({k \in DOMAIN rasterLog :
                                      p \in rasterLog[k][1]..rasterLog[k][2]}) = 1

\* three pages in chunks of two: 1-2, then 3
C25_Witness ==
    /\ ChunkLoopEntered
    /\ pcOcr = "done"
    /\ totalPages = 3
    /\ chunkSize = 2
    /\ rasterLog = << <<1, 2>>, <<3, 3>> >>

\* C26: extract_pdf_with_ocr handles its chunks strictly one after another:
\* the next chunk is rasterized only when the OCR call of every page of the
\* chunk before has returned, so the pages waiting for or in an OCR call
\* all belong to the chunk rasterized last.
C26_ChunksOneAfterAnother ==
    extractor = "extract_pdf_with_ocr" =>
        /\ \A p \in running \cup Range(queue) :
               /\ rasterLog # <<>>
               /\ p \in Last(rasterLog)[1]..Last(rasterLog)[2]
        /\ pcOcr \in {"loop", "done"} => queue = <<>> /\ running = {}

\* the second chunk is being OCR'd, every page of the first has returned
C26_Witness ==
    /\ extractor = "extract_pdf_with_ocr"
    /\ pcOcr = "map"
    /\ Len(rasterLog) = 2
    /\ running # {}
    /\ rasterLog[1][1]..rasterLog[1][2] \subseteq DOMAIN ocrOut
    /\ rasterLog[1][2] - rasterLog[1][1] = 1

----------------------------------------------------------------------------
(* SpecPool: the thread pool of pdf_to_text from the submission of the     *)
(* page calls (OCR_parsing_hin.py:87) on, for documents with more pages    *)
(* than the pool has threads.                                              *)

\* a document has at most MaxPoolPages pages
MaxPoolPages == 5

\* the state in which pdf_to_text has submitted the calls of its pages
InitPool ==
    /\ extractor = "pdf_to_text"
    /\ pcOcr = "submitted"
    /\ totalPages \in 0..MaxPoolPages
    /\ chunkSize = 0
    /\ maxWorkers \in {DefaultMaxWorkers, PipelineMaxWorkers}
    /\ chunkStart = 0
    /\ chunkPages = PageRange(0, totalPages - 1)
    /\ queue = PageRange(0, totalPages - 1)
    /\ running = {}
    /\ ocrOut = <<>>
    /\ completed = <<>>
    /\ doneAtCall = {}
    /\ yielded = <<>>
    /\ allText = <<>>
    /\ ocrReturn = <<>>
    /\ outFile = NoFile
    /\ rasterLog = << <<0, totalPages - 1>> >>
    /\ ocrFailed = {}
    /\ imageFiles = {}
    /\ IdleUrl /\ IdleEx /\ IdlePipe /\ IdleLater

NextPool ==
    \/ WorkerTake /\ UNCHANGED ocrFrame
    \/ WorkerFinish /\ UNCHANGED ocrFrame
    \/ WorkerFails /\ UNCHANGED <<urlVars, exVars, pipeVars, laterVars>>

SpecPool == InitPool /\ [][NextPool]_vars

\* C27: during the OCR stage of a document the number of page OCR calls in
\* progress is at every moment at most the pool size, whatever the number
\* of pages: 4 in extract_pdf_with_ocr and by default in pdf_to_text, 8 when
\* a pipeline passes max_workers=8.
C27_CallsBoundedByPool ==
    /\ Cardinality(running) <= maxWorkers
    /\ maxWorkers \in {DefaultMaxWorkers, PipelineMaxWorkers}
    /\ extractor = "extract_pdf_with_ocr" => maxWorkers = DefaultMaxWorkers

\* five pages and a pool of four: four calls in progress, the fifth waiting
C27_Witness ==
    /\ maxWorkers = DefaultMaxWorkers
    /\ Cardinality(running) = maxWorkers
    /\ queue # <<>>

----------------------------------------------------------------------------
(* SpecProc: two processes at work in the same directory, each handling    *)
(* one document. A process runs a Mongo pipeline (en_extract,              *)
(* en_hin_extract, extract) or parsingText2.extract_text_from_pdf_url.     *)
(* fsFiles are the scratch files that exist, inUse[p] those process p      *)
(* created and has not finished with, clashes the accesses of a process    *)
(* to a file another process has in use.                                   *)

Pids == {1, 2}
Progs == {"pipeline", "pt2_url"}

\* the downloaded PDF: f"temp_{os.getpid()}.pdf" (en_extract.py:68,
\* extract.py:41), f"temp_{pid}_{lang}.pdf" (en_hin_extract.py:57); "temp.pdf"
\* in parsingText2.py:262
PdfPath(p) ==
    IF procProg[p] = "pt2_url" THEN [dir |-> ".", stem |-> "temp", pid |-> 0]
    ELSE [dir |-> ".", stem |-> "temp", pid |-> p]

\* the page image: pdf_images/page_{pid}_{index}.png (OCR_parsing_hin.py:37)
ImagePath(p) == [dir |-> "pdf_images", stem |-> "page", pid |-> p]

\* filename.startswith('temp_') and it ends in .pdf or .txt
\* (en_hin_extract.py:179-180)
IsTempFile(f) == f.dir = "." /\ f.stem = "temp" /\ f.pid # 0

\* a file of pdf_images with filename.startswith('page_')
\* (en_hin_extract.py:188-190, OCR_parsing_hin.py:105-106)
IsPageFile(f) == f.dir = "pdf_images" /\ f.stem = "page"

\* the accesses of kind op by process p to the files of fs that another
\* process has in use
ClashesOf(p, op, fs) ==
    {[actor |-> p, file |-> f, op |-> op] :
        f \in {g \in fs : \E q \in Pids \ {p} : g \in inUse[q]}}

InitProc ==
    /\ procProg \in [Pids -> Progs]
    /\ procPc = [p \in Pids |-> "start"]
    /\ fsFiles = {}
    /\ inUse = [p \in Pids |-> {}]
    /\ clashes = {}
    /\ IdleUrl /\ IdleEx /\ IdleOcr /\ IdlePipe /\ IdleNat /\ IdleFilter /\ IdleDoc
    /\ IdleSplit /\ IdlePairs /\ IdleTemp

\* the PDF is downloaded and written to the process's path
ProcDownload(p) ==
    /\ procPc[p] = "start"
    /\ clashes' = clashes \cup ClashesOf(p, "write", {PdfPath(p)})
    /\ fsFiles' = fsFiles \cup {PdfPath(p)}
    /\ inUse' = [inUse EXCEPT ![p] = @ \cup {PdfPath(p)}]
    /\ procPc' = [procPc EXCEPT ![p] = "downloaded"]
    /\ UNCHANGED procProg

\* pdf_to_text: the PDF is rasterized and process_image saves the page image
ProcSaveImage(p) ==
    /\ procProg[p] = "pipeline"
    /\ procPc[p] = "downloaded"
    /\ clashes' = clashes \cup ClashesOf(p, "write", {ImagePath(p)})
    /\ fsFiles' = fsFiles \cup {ImagePath(p)}
    /\ inUse' = [inUse EXCEPT ![p] = @ \cup {ImagePath(p)}]
    /\ procPc' = [procPc EXCEPT ![p] = "saved"]
    /\ UNCHANGED procProg

\* process_image: image_to_string reads the image, os.remove removes it
ProcOcrImage(p) ==
    /\ procProg[p] = "pipeline"
    /\ procPc[p] = "saved"
    /\ fsFiles' = fsFiles \ {ImagePath(p)}
    /\ inUse' = [inUse EXCEPT ![p] = @ \ {ImagePath(p)}]
    /\ procPc' = [procPc EXCEPT ![p] = "ocr_done"]
    /\ UNCHANGED <<procProg, clashes>>

\* pdf_to_text, lines 104-110: every page_ file of pdf_images is removed
ProcSweep(p) ==
    /\ procProg[p] = "pipeline"
    /\ procPc[p] = "ocr_done"
    /\ clashes' = clashes \cup ClashesOf(p, "remove", {f \in fsFiles : IsPageFile(f)})
    /\ fsFiles' = {f \in fsFiles : ~IsPageFile(f)}
    /\ procPc' = [procPc EXCEPT ![p] = "swept"]
    /\ UNCHANGED <<procProg, inUse>>

\* the finally block of the extraction: the process's PDF is removed
ProcFinally(p) ==
    /\ procProg[p] = "pipeline"
    /\ procPc[p] = "swept"
    /\ fsFiles' = fsFiles \ {PdfPath(p)}
    /\ inUse' = [inUse EXCEPT ![p] = @ \ {PdfPath(p)}]
    /\ procPc' = [procPc EXCEPT ![p] = "cleaned"]
    /\ UNCHANGED <<procProg, clashes>>

\* clean_temp_files: every temp_*.pdf / temp_*.txt of the directory and
\* every page_ file of pdf_images is removed
ProcCleanTempFiles(p) ==
    /\ procProg[p] = "pipeline"
    /\ procPc[p] = "cleaned"
    /\ clashes' = clashes \cup ClashesOf(p, "remove",
                                        {f \in fsFiles : IsTempFile(f) \/ IsPageFile(f)})
    /\ fsFiles' = {f \in fsFiles : ~IsTempFile(f) /\ ~IsPageFile(f)}
    /\ procPc' = [procPc EXCEPT ![p] = "done"]
    /\ UNCHANGED <<procProg, inUse>>

\* extract_text_from_pdf_url, line 266: temp.pdf is read by the extraction
ProcPt2Extract(p) ==
    /\ procProg[p] = "pt2_url"
    /\ procPc[p] = "downloaded"
    /\ clashes' = clashes \cup ClashesOf(p, "read", {PdfPath(p)} \cap fsFiles)
    /\ procPc' = [procPc EXCEPT ![p] = "extracted"]
    /\ UNCHANGED <<procProg, fsFiles, inUse>>

\* lines 273-275: "if os.path.exists('temp.pdf'): os.remove('temp.pdf')"
ProcPt2Remove(p) ==
    /\ procProg[p] = "pt2_url"
    /\ procPc[p] = "extracted"
    /\ clashes' = clashes \cup ClashesOf(p, "remove", {PdfPath(p)} \cap fsFiles)
    /\ fsFiles' = fsFiles \ {PdfPath(p)}
    /\ inUse' = [inUse EXCEPT ![p] = @ \ {PdfPath(p)}]
    /\ procPc' = [procPc EXCEPT ![p] = "done"]
    /\ UNCHANGED procProg

procFrame == <<urlVars, exVars, ocrVars, pipeVars, ocrFailed, imageFiles,
               natVars, filterVars, docVars, splitVars, pairVars, tempVars>>

NextProc ==
    \/ \E p \in Pids : ProcDownload(p) /\ UNCHANGED procFrame
    \/ \E p \in Pids : ProcSaveImage(p) /\ UNCHANGED procFrame
    \/ \E p \in Pids : ProcOcrImage(p) /\ UNCHANGED procFrame
    \/ \E p \in Pids : ProcSweep(p) /\ UNCHANGED procFrame
    \/ \E p \in Pids : ProcFinally(p) /\ UNCHANGED procFrame
    \/ \E p \in Pids : ProcCleanTempFiles(p) /\ UNCHANGED procFrame
    \/ \E p \in Pids : ProcPt2Extract(p) /\ UNCHANGED procFrame
    \/ \E p \in Pids : ProcPt2Remove(p) /\ UNCHANGED procFrame

SpecProc == InitProc /\ [][NextProc]_vars

\* C28: when two processes run at the same time on different documents, no
\* process writes to, reads or removes a scratch file (downloaded PDF, page
\* image) that the other process created and still has in use.
C28_NoForeignScratchAccess == clashes = {}

----------------------------------------------------------------------------
(* SpecPairs: one call of genPairs.extract_aligned_pairs(text, threshold). *)
(* The text is an alignment file: one line per triple, the source unit,    *)
(* the target unit and the score separated by tabs. A score is kept as the *)
(* fraction num / 10^decimals, the threshold in hundredths.                *)

\* the text has at most MaxTriples lines
MaxTriples == 2
\* "threshold=0.6", in hundredths
DefaultThreshold == 60
\* a stricter threshold a caller may pass, in hundredths
LowThreshold == 50

SrcUnits == {<<"a">>, <<" ", "b", " ">>, <<" ">>}
TgtUnits == {<<"KA">>, <<" ">>}
\* scores as an aligner prints them: 0.7, 0.6, 0.5, a malformed 1.2.3 and
\* the float 0.00001, which Python prints as 1e-05
ScoreFields ==
    { <<"0", ".", "7">>, <<"0", ".", "6">>, <<"0", ".", "5">>,
      <<"1", ".", "2", ".", "3">>, <<"1", "e", "-", "0", "5">> }

TripleRecords == [src : SrcUnits, tgt : TgtUnits, score : ScoreFields]

RECURSIVE TripleLists(_)
TripleLists(n) ==
    IF n = 0 THEN {<<>>}
    ELSE LET shorter == TripleLists(n - 1)
         IN  shorter \cup {Append(l, t) : l \in {k \in shorter : Len(k) = n - 1},
                                          t \in TripleRecords}

\* the text of the file
TripleLine(t) == t.src \o <<"TAB">> \o t.tgt \o <<"TAB">> \o t.score
PairText(ts) == Join([i \in DOMAIN ts |-> TripleLine(ts[i])], <<"NL">>)

\* [0-9\.]
IsScoreChar(c) == IsDigit(c) \/ c = "."

\* the index of the first tab of s at or after i, 0 when there is none
NextTab(s, i) ==
    LET tabs == {j \in i..Len(s) : s[j] = "TAB"}
    IN  IF tabs = {} THEN 0 ELSE CHOOSE j \in tabs : \A h \in tabs : j <= h

\* the index of the last character of the run of [0-9\.] that starts at i
ScoreEnd(s, i) ==
    LET stops == {j \in i..Len(s) : ~IsScoreChar(s[j])}
    IN  IF stops = {} THEN Len(s)
        ELSE (CHOOSE j \in stops : \A h \in stops : j <= h) - 1

NoMatch == [found |-> FALSE, groups |-> <<>>, end |-> 0]

\* the match of r'([^\t]+)\t([^\t]+)\t([0-9\.]+)' that starts at index b of
\* the text: the greedy groups end at the next tab, the score at the first
\* character that is no digit and no dot
MatchAt(text, b) ==
    LET t1 == NextTab(text, b)
        t2 == IF t1 = 0 THEN 0 ELSE NextTab(text, t1 + 1)
        e  == IF t2 = 0 THEN 0 ELSE ScoreEnd(text, t2 + 1)
    IN  IF t1 > b /\ t2 > t1 + 1 /\ e > t2
        THEN [found |-> TRUE,
              groups |-> <<SubSeq(text, b, t1 - 1), SubSeq(text, t1 + 1, t2 - 1),
                           SubSeq(text, t2 + 1, e)>>,
              end |-> e]
        ELSE NoMatch

\* re.findall(pattern, text): the matches from left to right, each search
\* starting where the last match ended
RECURSIVE FindAllFrom(_, _)
FindAllFrom(text, pos) ==
    LET starts == {b \in pos..Len(text) : MatchAt(text, b).found}
    IN  IF starts = {} THEN <<>>
        ELSE LET b == CHOOSE x \in starts : \A y \in starts : x <= y
             IN  <<MatchAt(text, b).groups>> \o FindAllFrom(text, MatchAt(text, b).end + 1)

DigitValue(c) == CHOOSE n \in 0..9 : Digit(n) = c

RECURSIVE IntOf(_)
IntOf(ds) ==
    IF ds = <<>> THEN 0
    ELSE IntOf(SubSeq(ds, 1, Len(ds) - 1)) * 10 + DigitValue(ds[Len(ds)])

RECURSIVE Pow10(_)
Pow10(k) == IF k = 0 THEN 1 ELSE 10 * Pow10(k - 1)

NotANumber == [ok |-> FALSE, num |-> 0, decimals |-> 0]

\* float(s) of digits with one dot at most: ValueError without a digit
Decimal(s) ==
    LET dots == {j \in 1..Len(s) : s[j] = "."}
    IN  IF \/ Cardinality(dots) > 1
           \/ \E j \in 1..Len(s) : ~IsScoreChar(s[j])
           \/ \A j \in 1..Len(s) : ~IsDigit(s[j])
        THEN NotANumber
        ELSE [ok |-> TRUE, num |-> IntOf(SelectSeq(s, IsDigit)),
              decimals |-> IF dots = {} THEN 0
                           ELSE Len(s) - (CHOOSE j \in dots : TRUE)]

\* float(s): a decimal, or a decimal with a negative exponent "e-dd"
float(s) ==
    LET es == {j \in 1..Len(s) : s[j] = "e"}
    IN  IF es = {} THEN Decimal(s)
        ELSE LET j == CHOOSE x \in es : \A y \in es : x <= y
                 m == Decimal(SubSeq(s, 1, j - 1))
                 x == SubSeq(s, j + 2, Len(s))
             IN  IF /\ m.ok
                    /\ j + 2 <= Len(s)
                    /\ s[j + 1] = "-"
                    /\ \A h \in 1..Len(x) : IsDigit(x[h])
                 THEN [ok |-> TRUE, num |-> m.num, decimals |-> m.decimals + IntOf(x)]
                 ELSE NotANumber

\* a plausible slip: ">=" in the place of ">"
AtLeastThreshold(f, th) == f.num * 100 >= th * Pow10(f.decimals)

\* "score_val > threshold"
AboveThreshold(f, th) == f.num * 100 > th * Pow10(f.decimals)

\* pairs[key] = value
DictSet(d, key, value) == {p \in d : p[1] # key} \cup {<<key, value>>}

InitPairs ==
    /\ pcPairs = "start"
    /\ triples \in TripleLists(MaxTriples) \ {<<>>}
    /\ threshold \in {DefaultThreshold, LowThreshold}
    /\ matches = <<>>
    /\ pairs = {}
    /\ IdleUrl /\ IdleEx /\ IdleOcr /\ IdlePipe /\ IdleNat /\ IdleFilter /\ IdleDoc
    /\ IdleSplit /\ IdleProc /\ IdleTemp

\* lines 17-23: the pattern, re.findall, the empty dict
PairsFindall ==
    /\ pcPairs = "start"
    /\ matches' = FindAllFrom(PairText(triples), 1)
    /\ pcPairs' = "loop"
    /\ UNCHANGED <<triples, threshold, pairs>>

\* lines 24-26 and 33-35: float(score) raises ValueError, "continue"
PairsValueError ==
    /\ pcPairs = "loop"
    /\ matches # <<>>
    /\ ~float(Head(matches)[3]).ok
    /\ matches' = Tail(matches)
    /\ UNCHANGED <<pcPairs, triples, threshold, pairs>>

\* lines 24-32: one turn of the loop over the matches
PairsTurn ==
    /\ pcPairs = "loop"
    /\ matches # <<>>
    /\ float(Head(matches)[3]).ok
    /\ LET eng == Head(matches)[1]
           hindi == Head(matches)[2]
           score_val == float(Head(matches)[3])
           eng_clean == Strip(eng)
           hindi_clean == Strip(hindi)
       IN  pairs' = IF /\ AboveThreshold(score_val, threshold)
                       /\ eng_clean # <<>>
                       /\ hindi_clean # <<>>
                    THEN DictSet(pairs, eng_clean, hindi_clean)
                    ELSE pairs
    /\ matches' = Tail(matches)
    /\ UNCHANGED <<pcPairs, triples, threshold>>

\* "return pairs"
PairsReturn ==
    /\ pcPairs = "loop"
    /\ matches = <<>>
    /\ pcPairs' = "returned"
    /\ UNCHANGED <<triples, threshold, matches, pairs>>

pairFrame == <<urlVars, exVars, ocrVars, pipeVars, ocrFailed, imageFiles,
               natVars, filterVars, docVars, splitVars, procVars, tempVars>>

NextPairs ==
    \/ PairsFindall /\ UNCHANGED pairFrame
    \/ PairsValueError /\ UNCHANGED pairFrame
    \/ PairsTurn /\ UNCHANGED pairFrame
    \/ PairsReturn /\ UNCHANGED pairFrame

SpecPairs == InitPairs /\ [][NextPairs]_vars

\* the pair (key, value) comes from a triple of the input whose score is a
\* number above the threshold and whose units, trimmed, are the pair's
\* non-empty key and value
FromGoodTriple(key, value) ==
    \E i \in DOMAIN triples :
        /\ float(triples[i].score).ok
        /\ AboveThreshold(float(triples[i].score), threshold)
        /\ Strip(triples[i].src) = key
        /\ Strip(triples[i].tgt) = value
        /\ key # <<>>
        /\ value # <<>>

\* C29: every pair that extract_aligned_pairs(text, threshold) returns comes
\* from a tab-separated triple of the input whose score is strictly greater
\* than the threshold, and its source and target unit are non-empty after
\* trimming; a triple whose score is no number yields no pair.
C29_PairsComeFromGoodTriples ==
    pcPairs = "returned" => \A p \in pairs : FromGoodTriple(p[1], p[2])

----------------------------------------------------------------------------
(* SpecTemp: the scratch files of one run of a Mongo pipeline over the     *)
(* documents of its query. disk maps each scratch file name to the         *)
(* download that wrote it (document, language, attempt) or to Absent; a    *)
(* text carries the download it was read from, and writes are the          *)
(* contents main stored.                                                   *)

\* the run handles MaxTempDocs documents
MaxTempDocs == 2

\* pdf_path: f"temp_{os.getpid()}.pdf" (en_extract.py:68, extract.py:41),
\* f"temp_{pid}_{lang}.pdf" (en_hin_extract.py:57)
PdfName(pl, lang) ==
    IF pl = "en_hin_extract"
    THEN (IF lang = "eng" THEN "temp_pid_eng.pdf" ELSE "temp_pid_hin.pdf")
    ELSE "temp_pid.pdf"

\* txt_path: f"temp_{os.getpid()}.txt" (en_extract.py:69),
\* f"temp_{pid}_{lang}.txt" (en_hin_extract.py:58); output_path
\* f"temp_hindi_{os.getpid()}.txt" (extract.py:107); the English branch of
\* extract.py writes no text file
TxtName(pl, lang) ==
    IF pl = "en_extract" THEN "temp_pid.txt"
    ELSE IF pl = "en_hin_extract"
         THEN (IF lang = "eng" THEN "temp_pid_eng.txt" ELSE "temp_pid_hin.txt")
    ELSE (IF lang = "hin" THEN "temp_hindi_pid.txt" ELSE "none")

TempNames ==
    {"temp_pid.pdf", "temp_pid_eng.pdf", "temp_pid_hin.pdf", "temp_pid.txt",
     "temp_pid_eng.txt", "temp_pid_hin.txt", "temp_hindi_pid.txt"}

\* no file of that name; also the origin of an empty text
Absent == [doc |-> 0, lang |-> "none", try |-> 0, kind |-> "absent"]

\* the file the download of attempt t for the current document wrote; kind
\* is "big" above 1000 bytes, "small" up to 1000 bytes, "empty" for the file
\* download_pdf_temp leaves on an exception
Downloaded(lang, t, kind) == [doc |-> docNo, lang |-> lang, try |-> t, kind |-> kind]

\* a plausible slip: os.remove that leaves the files where they are
RemoveNothing(d, names) == d

\* os.remove on each of the names that exist
Remove(d, names) == [n \in DOMAIN d |-> IF n \in names THEN Absent ELSE d[n]]

\* the languages process_document extracts for a document, in its order
LangPlans(pl) ==
    IF pl = "en_extract" THEN {<<>>, <<"eng">>}
    ELSE {<<>>, <<"eng">>, <<"hin">>, <<"eng", "hin">>}

InitTemp ==
    /\ runPipeline \in Pipelines
    /\ pcRun = "loop"
    /\ docNo = 0
    /\ langsLeft = <<>>
    /\ tryNo = 0
    /\ disk = [n \in TempNames |-> Absent]
    /\ got = Absent
    /\ newFields = [l \in {"eng", "hin"} |-> Absent]
    /\ inputsUsed = {}
    /\ writes = {}
    /\ IdleUrl /\ IdleEx /\ IdleOcr /\ IdlePipe /\ IdleNat /\ IdleFilter /\ IdleDoc
    /\ IdleSplit /\ IdleProc /\ IdlePairs

\* main: the for loop takes the next document; process_document is called
TempTakeDoc ==
    /\ pcRun = "loop"
    /\ docNo < MaxTempDocs
    /\ docNo' = docNo + 1
    /\ langsLeft' \in LangPlans(runPipeline)
    /\ newFields' = [l \in {"eng", "hin"} |-> Absent]
    /\ pcRun' = "branch"
    /\ UNCHANGED <<runPipeline, tryNo, disk, got, inputsUsed, writes>>

\* process_document / extract_content: the extraction of a language begins
TempBranch ==
    /\ pcRun = "branch"
    /\ langsLeft # <<>>
    /\ tryNo' = 0
    /\ got' = Absent
    /\ pcRun' = "retry"
    /\ UNCHANGED <<runPipeline, docNo, langsLeft, disk, newFields, inputsUsed, writes>>

\* one turn of "for attempt in range(max_retries)": the download raises
\* before it opens the file (download_pdf), leaves an empty file
\* (download_pdf_temp), or writes the response body; a body above 1000
\* bytes breaks the loop
TempDownload ==
    /\ pcRun = "retry"
    /\ \E outcome \in {"raises", "small", "big"} :
        LET lang == Head(langsLeft)
            name == PdfName(runPipeline, lang)
        IN  /\ disk' = IF outcome = "raises"
                       THEN (IF runPipeline = "extract"
                             THEN [disk EXCEPT ![name] = Downloaded(lang, tryNo, "empty")]
                             ELSE disk)
                       ELSE [disk EXCEPT ![name] = Downloaded(lang, tryNo, outcome)]
            /\ IF outcome = "big"
               THEN pcRun' = "check" /\ UNCHANGED tryNo
               ELSE /\ tryNo' = tryNo + 1
                    /\ pcRun' = IF tryNo + 1 < max_retries THEN "retry" ELSE "check"
    /\ UNCHANGED <<runPipeline, docNo, langsLeft, got, newFields, inputsUsed, writes>>

\* after the loop: "if os.path.exists(pdf_path) and os.path.getsize(pdf_path)
\* > 1000" and the extraction. pdf_to_text returns the text and writes it to
\* the text file, or returns "" from its except branch; extract_hindi_content
\* then reads the text file "if not text and os.path.exists(output_path)"
\* and removes it
TempExtract ==
    /\ pcRun = "check"
    /\ LET lang == Head(langsLeft)
           pdf == disk[PdfName(runPipeline, lang)]
           txt == TxtName(runPipeline, lang)
       IN  IF pdf.kind = "big"
           THEN /\ inputsUsed' = inputsUsed \cup
                       {[doc |-> docNo, lang |-> lang, try |-> tryNo, file |-> pdf]}
                /\ \E result \in {"text", "blank", "raises"} :
                    LET text == IF result = "text" THEN pdf ELSE Absent
                        written == IF txt = "none" \/ result = "raises" THEN disk
                                   ELSE [disk EXCEPT ![txt] = text]
                    IN  IF runPipeline = "extract" /\ lang = "hin"
                        THEN /\ got' = IF text = Absent THEN written[txt] ELSE text
                             /\ disk' = Remove(written, {txt})
                        ELSE /\ got' = text
                             /\ disk' = written
           ELSE /\ got' = Absent
                /\ UNCHANGED <<disk, inputsUsed>>
    /\ pcRun' = "cleanup"
    /\ UNCHANGED <<runPipeline, docNo, langsLeft, tryNo, newFields, writes>>

\* the finally block of en_extract.py:102-114 and en_hin_extract.py:95-107
\* (PDF and text file), "if os.path.exists(...): os.remove(...)" of
\* extract.py:169-170 and 207-208 (PDF)
TempCleanup ==
    /\ pcRun = "cleanup"
    /\ LET lang == Head(langsLeft)
       IN  disk' = Remove(disk, IF runPipeline = "extract"
                                THEN {PdfName(runPipeline, lang)}
                                ELSE {PdfName(runPipeline, lang), TxtName(runPipeline, lang)})
    /\ pcRun' = "setfield"
    /\ UNCHANGED <<runPipeline, docNo, langsLeft, tryNo, got, newFields, inputsUsed,
                   writes>>

\* the text the extraction returned is put into the document's field
TempSetField ==
    /\ pcRun = "setfield"
    /\ newFields' = [newFields EXCEPT ![Head(langsLeft)] = got]
    /\ langsLeft' = Tail(langsLeft)
    /\ pcRun' = "branch"
    /\ UNCHANGED <<runPipeline, docNo, tryNo, disk, got, inputsUsed, writes>>

\* main: update_one with the non-empty fields, then clean_temp_files, which
\* removes every temp_*.pdf and temp_*.txt
TempUpdate ==
    /\ pcRun = "branch"
    /\ langsLeft = <<>>
    /\ writes' = writes \cup
           {[doc |-> docNo, lang |-> l, file |-> newFields[l]] :
               l \in {k \in {"eng", "hin"} : newFields[k] # Absent}}
    /\ disk' = Remove(disk, TempNames)
    /\ pcRun' = "loop"
    /\ UNCHANGED <<runPipeline, docNo, langsLeft, tryNo, got, newFields, inputsUsed>>

\* main: the cursor is exhausted; "finally: clean_temp_files()"
TempFinish ==
    /\ pcRun = "loop"
    /\ docNo = MaxTempDocs
    /\ disk' = Remove(disk, TempNames)
    /\ pcRun' = "finished"
    /\ UNCHANGED <<runPipeline, docNo, langsLeft, tryNo, got, newFields, inputsUsed,
                   writes>>

tempFrame == <<urlVars, exVars, ocrVars, pipeVars, ocrFailed, imageFiles,
               natVars, filterVars, docVars, splitVars, procVars, pairVars>>

NextTemp ==
    \/ TempTakeDoc /\ UNCHANGED tempFrame
    \/ TempBranch /\ UNCHANGED tempFrame
    \/ TempDownload /\ UNCHANGED tempFrame
    \/ TempExtract /\ UNCHANGED tempFrame
    \/ TempCleanup /\ UNCHANGED tempFrame
    \/ TempSetField /\ UNCHANGED tempFrame
    \/ TempUpdate /\ UNCHANGED tempFrame
    \/ TempFinish /\ UNCHANGED tempFrame

SpecTemp == InitTemp /\ [][NextTemp]_vars

====
